---- MODULE Spec2Model ----
(***************************************************************************)
(* Centurion: CS2 skin price aggregation and arbitrage detection.          *)
(*                                                                         *)
(* Two monitors are modelled:                                              *)
(*   SimplePriceMonitor (src/src/services/price_monitor_simple.py), the    *)
(*     stateless on-demand path: search_skin_manual and                    *)
(*     find_arbitrage_opportunities;                                       *)
(*   PriceMonitor (src/src/services/price_monitor.py), the scheduler path: *)
(*     start_monitoring / stop_monitoring, the cycle _monitor_prices and   *)
(*     the ledger (Skin, Price, ArbitrageOpportunity rows).                *)
(*                                                                         *)
(* Conventions.  Money is an integer number of thousandths of a dollar, so *)
(* that the 2.5% and 15% fees are exact; profit_percentage is kept as the  *)
(* exact fraction <<numerator, denominator>> and compared by cross         *)
(* multiplication.  Text on which the code computes (condition text,       *)
(* marketplace names and labels) is a sequence of one-character strings.   *)
(* An asyncio task runs atomically between two suspensions (a network call *)
(* of a marketplace client or asyncio.sleep); each action of a task is one *)
(* such atomic stretch.                                                    *)
(***************************************************************************)
EXTENDS Integers, Sequences, FiniteSets, TLC

VARIABLES
    min_profit_threshold,   \* self.min_profit_threshold (percent)
    max_price_difference,   \* self.max_price_difference (thousandths of a dollar)
    market,                 \* what each marketplace client answers in the on-demand scenario
    request,                \* the weapon and skin name the on-demand caller asks for
    q_pc,                   \* position of the on-demand caller
    all_prices,             \* value returned by SimplePriceMonitor.search_skin_manual
    found,                  \* outcome of SimplePriceMonitor.find_arbitrage_opportunities
    fee_call,               \* a call of _get_marketplace_fees: arguments and values
    price_monitor,          \* the routers' global price_monitor is set (main.py line 49)
    response,               \* what the last call of an HTTP endpoint answered
    is_running,             \* PriceMonitor.is_running
    task,                   \* the start_monitoring coroutines: position and locals
    now,                    \* datetime.utcnow(), in seconds
    skins,                  \* table skins; the id of a row is its index
    prices,                 \* table prices
    arbitrage_opportunities \* table arbitrage_opportunities

config == <<min_profit_threshold, max_price_difference>>
query == <<request, q_pc, all_prices, found, fee_call, price_monitor, response>>
ledger == <<skins, prices, arbitrage_opportunities>>
vars == <<config, market, query, is_running, task, now, ledger>>

----------------------------------------------------------------------------
(* Numbers *)

\* the least and the greatest element of a set of numbers
Least(S) == CHOOSE x \in S : \A y \in S : x <= y
Greatest(S) == CHOOSE x \in S : \A y \in S : x >= y

----------------------------------------------------------------------------
(* Text *)

\* the element of a one-element set: Only({F(x) : x \in {e}}) is F(e) with
\* e computed once
Only(S) == CHOOSE x \in S : TRUE

UpperCase == <<"A","B","C","D","E","F","G","H","I","J","K","L","M",
               "N","O","P","Q","R","S","T","U","V","W","X","Y","Z">>
LowerCase == <<"a","b","c","d","e","f","g","h","i","j","k","l","m",
               "n","o","p","q","r","s","t","u","v","w","x","y","z">>

\* the lower-case letter of each upper-case letter
ToLower ==
    [c \in {UpperCase[i] : i \in 1..Len(UpperCase)} |->
        LowerCase[CHOOSE i \in 1..Len(UpperCase) : UpperCase[i] = c]]

\* str.lower() on one character
LowerChar(c) == IF c \in DOMAIN ToLower THEN ToLower[c] ELSE c

\* str.lower()
Lower(s) == [i \in 1..Len(s) |-> LowerChar(s[i])]

\* str.replace(" ", "_")
ReplaceSpace(s) == [i \in 1..Len(s) |-> IF s[i] = " " THEN "_" ELSE s[i]]

\* a in b, for str
IsSubstring(a, b) ==
    \E i \in 0..(Len(b) - Len(a)) : SubSeq(b, i + 1, i + Len(a)) = a

\* "|".join(parts)
RECURSIVE JoinBar(_)
JoinBar(parts) ==
    IF Len(parts) = 0 THEN <<>>
    ELSE IF Len(parts) = 1 THEN parts[1]
    ELSE parts[1] \o <<"|">> \o JoinBar(Tail(parts))

----------------------------------------------------------------------------
(* Marketplace registry *)

CSFloatName == <<"C","S","F","l","o","a","t">>
SteamName == <<"S","t","e","a","m">>

\* self.marketplaces, in registry order; the entry is mp.name
Marketplaces == <<CSFloatName, SteamName>>

CSFloatFeePerMille == 25
SteamFeePerMille == 150

\* mp.get_fees(price) of the i-th registered marketplace
get_fees(i, price) ==
    IF Marketplaces[i] = CSFloatName
    THEN (price * CSFloatFeePerMille) \div 1000
    ELSE (price * SteamFeePerMille) \div 1000

\* faulty variant of the lookup: the label has to be the registered name
exact_marketplace_fees(marketplace, price) ==
    IF \E i \in 1..Len(Marketplaces) : Marketplaces[i] = marketplace
    THEN get_fees(CHOOSE i \in 1..Len(Marketplaces) : Marketplaces[i] = marketplace,
                  price)
    ELSE 0

\* _get_marketplace_fees(marketplace, price): first registered marketplace
\* whose lower-cased name is contained in the lower-cased label
get_marketplace_fees(marketplace, price) ==
    \* the registered marketplaces whose name is in the label
    LET matching(label) ==
            {i \in 1..Len(Marketplaces) :
                \E name \in {Lower(Marketplaces[i])} : IsSubstring(name, label)}
        first_fees(hits) ==
            IF hits = {} THEN 0
            ELSE get_fees(CHOOSE i \in hits : \A j \in hits : i <= j, price)
    IN Only({first_fees(hits) : hits \in {Only({matching(label) : label \in {Lower(marketplace)}})}})

\* PriceMonitor._get_marketplace_fees(marketplace, price), the lookup of the
\* scheduler path: the loop over self.marketplaces returns at the first
\* marketplace whose lower-cased name is in the lower-cased label
RECURSIVE PriceMonitor_fees_from(_, _, _)
PriceMonitor_fees_from(i, label, price) ==
    IF i > Len(Marketplaces) THEN 0
    ELSE IF \E name \in {Lower(Marketplaces[i])} : IsSubstring(name, label)
    THEN get_fees(i, price)
    ELSE PriceMonitor_fees_from(i + 1, label, price)

PriceMonitor_get_marketplace_fees(marketplace, price) ==
    Only({PriceMonitor_fees_from(1, label, price) : label \in {Lower(marketplace)}})

----------------------------------------------------------------------------
(* Python containers *)

\* d.setdefault(k, []).append(v) on an insertion-ordered dict of lists,
\* kept as a sequence of [key, items] entries
setdefault_append(d, k, v) ==
    IF \E i \in 1..Len(d) : d[i].key = k
    THEN [i \in 1..Len(d) |->
            IF d[i].key = k THEN [d[i] EXCEPT !.items = Append(@, v)] ELSE d[i]]
    ELSE Append(d, [key |-> k, items |-> <<v>>])

DictAppend(d, k, v) == Only({setdefault_append(d0, k0, v) : d0 \in {d}, k0 \in {k}})

\* faulty variant of min: the first element
FirstQuote(s) == s[1]

\* min(s, key=lambda p: p.price): the first element of least price
MinByPrice(s) ==
    s[CHOOSE i \in 1..Len(s) :
        /\ \A j \in 1..Len(s) : s[i].price <= s[j].price
        /\ \A j \in 1..(i - 1) : s[j].price > s[i].price]

\* max(s, key=lambda p: p.price): the first element of greatest price
MaxByPrice(s) ==
    s[CHOOSE i \in 1..Len(s) :
        /\ \A j \in 1..Len(s) : s[i].price >= s[j].price
        /\ \A j \in 1..(i - 1) : s[j].price < s[i].price]

\* list.sort(key=lambda x: x["net_profit"], reverse=True): stable, descending
RECURSIVE SortByNetProfitDesc(_)
SortByNetProfitDesc(s) ==
    IF Len(s) <= 1 THEN s
    ELSE LET rest == SortByNetProfitDesc(SubSeq(s, 1, Len(s) - 1))
             x == s[Len(s)]
             \* x goes after every element whose net_profit is >= its own
             k == Cardinality({i \in 1..Len(rest) : rest[i].net_profit >= x.net_profit})
         IN SubSeq(rest, 1, k) \o <<x>> \o SubSeq(rest, k + 1, Len(rest))

----------------------------------------------------------------------------
(* SimplePriceMonitor: the stateless detector *)

NoText == <<>>

\* _create_item_key(price, weapon, skin_name); weapon and skin_name are
\* NoText when None or empty
create_item_key(price, weapon, skin_name) ==
    LET condition == ReplaceSpace(Lower(price.condition))
    IN JoinBar(<< weapon,
                  skin_name,
                  condition,
                  IF price.stattrak THEN <<"stattrak">> ELSE <<"regular">>,
                  IF price.souvenir THEN <<"souvenir">> ELSE <<"normal">> >>)

\* _extract_item_details(price, weapon, skin_name)
extract_item_details(price, weapon, skin_name) ==
    [weapon |-> weapon,
     skin |-> skin_name,
     condition |-> IF price.condition = NoText
                   THEN <<"U","n","k","n","o","w","n">> ELSE price.condition,
     stattrak |-> price.stattrak,
     souvenir |-> price.souvenir]

\* faulty variant of search_skin_manual: the first exception ends the loop
\* and the quotes gathered so far are returned
RECURSIVE search_until_raise_upto(_, _)
search_until_raise_upto(answers, n) ==
    IF n = 0 THEN <<>>
    ELSE IF \E k \in 1..n : answers[k].raises
    THEN search_until_raise_upto(answers, n - 1)
    ELSE search_until_raise_upto(answers, n - 1) \o answers[n].prices

search_until_raise(answers) == search_until_raise_upto(answers, Len(Marketplaces))

\* search_skin_manual: the answers of the marketplaces that did not raise,
\* concatenated in registry order
RECURSIVE search_skin_manual_upto(_, _)
search_skin_manual_upto(answers, n) ==
    IF n = 0 THEN <<>>
    ELSE search_skin_manual_upto(answers, n - 1)
            \o (IF answers[n].raises THEN <<>> ELSE answers[n].prices)

search_skin_manual(answers) == search_skin_manual_upto(answers, Len(Marketplaces))

\* faulty variant of the grouping: only neighbouring quotes of one key are
\* put together
RECURSIVE run_groups_upto(_, _, _, _)
run_groups_upto(quotes, weapon, skin_name, n) ==
    IF n = 0 THEN <<>>
    ELSE LET before == run_groups_upto(quotes, weapon, skin_name, n - 1)
             key == create_item_key(quotes[n], weapon, skin_name)
         IN IF Len(before) > 0 /\ before[Len(before)].key = key
            THEN [before EXCEPT ![Len(before)].items = Append(@, quotes[n])]
            ELSE Append(before, [key |-> key, items |-> <<quotes[n]>>])

run_groups(quotes, weapon, skin_name) ==
    run_groups_upto(quotes, weapon, skin_name, Len(quotes))

\* lines 63-70: item_groups
RECURSIVE item_groups_upto(_, _, _, _)
item_groups_upto(quotes, weapon, skin_name, n) ==
    IF n = 0 THEN <<>>
    ELSE DictAppend(item_groups_upto(quotes, weapon, skin_name, n - 1),
                    create_item_key(quotes[n], weapon, skin_name),
                    quotes[n])

item_groups(quotes, weapon, skin_name) ==
    item_groups_upto(quotes, weapon, skin_name, Len(quotes))

\* lines 80-84: marketplace_prices of one group
RECURSIVE marketplace_prices_upto(_, _)
marketplace_prices_upto(item_prices, n) ==
    IF n = 0 THEN <<>>
    ELSE DictAppend(marketplace_prices_upto(item_prices, n - 1),
                    item_prices[n].marketplace,
                    item_prices[n])

marketplace_prices(item_prices) == marketplace_prices_upto(item_prices, Len(item_prices))

\* faulty variant of marketplace_lowest: max in place of min
marketplace_highest(item_prices) ==
    LET mp == marketplace_prices(item_prices)
    IN [i \in 1..Len(mp) |-> MaxByPrice(mp[i].items)]

\* lines 87-89: marketplace_lowest.values(), in dict order
marketplace_lowest(item_prices) ==
    LET mp == marketplace_prices(item_prices)
    IN [i \in 1..Len(mp) |-> MinByPrice(mp[i].items)]

\* line 95 and line 96
lowest_price_obj(item_prices) == MinByPrice(marketplace_lowest(item_prices))
highest_price_obj(item_prices) == MaxByPrice(marketplace_lowest(item_prices))

\* line 104
same_marketplace(buy_marketplace, sell_marketplace) ==
    buy_marketplace = sell_marketplace

\* faulty variant of the spread gate: the gate is left out
spread_never_too_small(buy_price, sell_price) == FALSE

\* line 108: the spread gate
spread_too_small(buy_price, sell_price) ==
    sell_price - buy_price < max_price_difference

\* line 116: the threshold gate on profit_percentage = num / den (den > 0)
percentage_too_small(profit_percentage) ==
    profit_percentage[1] < min_profit_threshold * profit_percentage[2]

\* line 127: the net profit gate
net_profit_not_positive(net_profit) == net_profit <= 0

\* faulty variant of the fee sum: the fee of the buy leg is left out
sell_leg_fees(buy_marketplace, buy_price, sell_marketplace, sell_price) ==
    get_marketplace_fees(sell_marketplace, sell_price)

\* lines 120-122: the fees of both legs
total_fees(buy_marketplace, buy_price, sell_marketplace, sell_price) ==
    get_marketplace_fees(buy_marketplace, buy_price)
        + get_marketplace_fees(sell_marketplace, sell_price)

\* lines 76-150: the body of the loop for one group.  kind is "continue"
\* (the group is skipped), "raise" (ZeroDivisionError at line 113) or
\* "append" (opp is appended to opportunities)
NoOpportunity == [buy_marketplace |-> NoText]

group_step(item_prices, weapon, skin_name) ==
    IF Len(item_prices) < 2
    THEN [kind |-> "continue", opp |-> NoOpportunity]
    ELSE IF Len(marketplace_lowest(item_prices)) < 2
    THEN [kind |-> "continue", opp |-> NoOpportunity]
    ELSE
    LET lo == lowest_price_obj(item_prices)
        hi == highest_price_obj(item_prices)
        buy_price == lo.price
        sell_price == hi.price
        buy_marketplace == lo.marketplace
        sell_marketplace == hi.marketplace
        profit_amount == sell_price - buy_price
        profit_percentage == <<profit_amount * 100, buy_price>>
        fees == total_fees(buy_marketplace, buy_price, sell_marketplace, sell_price)
        net_profit == profit_amount - fees
        item_details == extract_item_details(lo, weapon, skin_name)
    IN  IF same_marketplace(buy_marketplace, sell_marketplace)
        THEN [kind |-> "continue", opp |-> NoOpportunity]
        ELSE IF spread_too_small(buy_price, sell_price)
        THEN [kind |-> "continue", opp |-> NoOpportunity]
        ELSE IF buy_price = 0
        THEN [kind |-> "raise", opp |-> NoOpportunity]
        ELSE IF percentage_too_small(profit_percentage)
        THEN [kind |-> "continue", opp |-> NoOpportunity]
        ELSE IF net_profit_not_positive(net_profit)
        THEN [kind |-> "continue", opp |-> NoOpportunity]
        ELSE [kind |-> "append",
              opp |-> [skin_name |-> skin_name,
                       weapon |-> weapon,
                       condition |-> item_details.condition,
                       stattrak |-> item_details.stattrak,
                       souvenir |-> item_details.souvenir,
                       buy_marketplace |-> buy_marketplace,
                       sell_marketplace |-> sell_marketplace,
                       buy_price |-> buy_price,
                       sell_price |-> sell_price,
                       profit_amount |-> profit_amount,
                       profit_percentage |-> profit_percentage,
                       fees |-> fees,
                       net_profit |-> net_profit,
                       buy_url |-> lo.url,
                       sell_url |-> hi.url]]

\* opportunities after the first n groups, unsorted
RECURSIVE opportunities_upto(_, _, _, _)
opportunities_upto(groups, weapon, skin_name, n) ==
    IF n = 0 THEN <<>>
    ELSE LET r == group_step(groups[n].items, weapon, skin_name)
             before == opportunities_upto(groups, weapon, skin_name, n - 1)
         IN IF r.kind = "append" THEN Append(before, r.opp) ELSE before

\* find_arbitrage_opportunities on the value of search_skin_manual:
\* raised is TRUE when the call ends with an exception instead of a value
find_arbitrage_opportunities(quotes, weapon, skin_name) ==
    IF Len(quotes) < 2 THEN [raised |-> FALSE, opportunities |-> <<>>]
    ELSE LET groups == item_groups(quotes, weapon, skin_name)
         IN IF \E i \in 1..Len(groups) :
                   group_step(groups[i].items, weapon, skin_name).kind = "raise"
            THEN [raised |-> TRUE, opportunities |-> <<>>]
            ELSE [raised |-> FALSE,
                  opportunities |->
                      SortByNetProfitDesc(
                          opportunities_upto(groups, weapon, skin_name, Len(groups)))]

----------------------------------------------------------------------------
(* PriceMonitor: the ledger *)

RecentWindow == 600

\* lines 138-150: one Price row per returned quote, stamped with the time
\* of the insert; the row keeps neither condition nor StatTrak nor Souvenir
RECURSIVE save_prices(_, _, _, _)
save_prices(rows, skin_id, quotes, time) ==
    IF Len(quotes) = 0 THEN rows
    ELSE save_prices(Append(rows, [skin_id |-> skin_id,
                                  marketplace |-> quotes[1].marketplace,
                                  price |-> quotes[1].price,
                                  available |-> quotes[1].available,
                                  timestamp |-> time]),
                     skin_id, Tail(quotes), time)

\* lines 180-184: the recent available prices of one skin, in row order
recent_prices(rows, skin_id, time) ==
    SelectSeq(rows, LAMBDA r : /\ r.skin_id = skin_id
                               /\ r.timestamp >= time - RecentWindow
                               /\ r.available)

\* lines 190-194: marketplace_prices, an ordered dict of lists of numbers
RECURSIVE row_marketplace_prices_upto(_, _)
row_marketplace_prices_upto(rows, n) ==
    IF n = 0 THEN <<>>
    ELSE DictAppend(row_marketplace_prices_upto(rows, n - 1),
                    rows[n].marketplace, rows[n].price)

SeqMin(s) == CHOOSE x \in {s[i] : i \in 1..Len(s)} : \A i \in 1..Len(s) : x <= s[i]
SeqMax(s) == CHOOSE x \in {s[i] : i \in 1..Len(s)} : \A i \in 1..Len(s) : x >= s[i]

\* lines 206-211: the last marketplace, in dict order, whose cheapest price
\* is min_price (None, modelled NoText, when there is none)
buy_marketplace_of(mp, min_price) ==
    LET hits == {i \in 1..Len(mp) : SeqMin(mp[i].items) = min_price}
    IN IF hits = {} THEN NoText
       ELSE mp[CHOOSE i \in hits : \A j \in hits : j <= i].key

\* lines 206-213: the last marketplace, in dict order, whose dearest price
\* is max_price
sell_marketplace_of(mp, max_price) ==
    LET hits == {i \in 1..Len(mp) : SeqMax(mp[i].items) = max_price}
    IN IF hits = {} THEN NoText
       ELSE mp[CHOOSE i \in hits : \A j \in hits : j <= i].key

\* lines 238-243: the ids of the active rows of a triple
\* faulty variant of the lookup: it answers from a snapshot of the table
\* taken before any row was committed
stale_existing_rows(opps, skin_id, buy_marketplace, sell_marketplace) == {}

\* lines 238-243: the active rows of the triple
existing_rows(opps, skin_id, buy_marketplace, sell_marketplace) ==
    {i \in 1..Len(opps) : /\ opps[i].skin_id = skin_id
                          /\ opps[i].buy_marketplace = buy_marketplace
                          /\ opps[i].sell_marketplace = sell_marketplace
                          /\ opps[i].is_active}

\* lines 255-266: a new ArbitrageOpportunity (detected_at and is_active
\* take their column defaults, models/skin.py lines 63 and 64)
opportunity_row(c, time) ==
    [skin_id |-> c.skin_id,
     buy_marketplace |-> c.buy_marketplace,
     sell_marketplace |-> c.sell_marketplace,
     buy_price |-> c.buy_price,
     sell_price |-> c.sell_price,
     profit_amount |-> c.profit_amount,
     profit_percentage |-> c.profit_percentage,
     fees |-> c.fees,
     net_profit |-> c.net_profit,
     detected_at |-> time,
     is_active |-> TRUE]

\* faulty variant of the upsert: every detection inserts a row
insert_opportunity(opps, c, time) == Append(opps, opportunity_row(c, time))

\* faulty variant of the upsert: the existing active rows of the triple are
\* retired and a new row is inserted
replace_opportunity(opps, c, time) ==
    LET ex == existing_rows(opps, c.skin_id, c.buy_marketplace, c.sell_marketplace)
    IN Append([i \in 1..Len(opps) |->
                  IF i \in ex THEN [opps[i] EXCEPT !.is_active = FALSE] ELSE opps[i]],
              opportunity_row(c, time))

\* lines 237-269: update the first existing active row of the triple, or
\* insert a new row (is_active defaults to True), and commit
upsert_opportunity(opps, c, time) ==
    LET ex == existing_rows(opps, c.skin_id, c.buy_marketplace, c.sell_marketplace)
    IN IF ex # {}
       THEN LET e == CHOOSE i \in ex : \A j \in ex : i <= j
            IN [opps EXCEPT ![e] = [@ EXCEPT !.buy_price = c.buy_price,
                                             !.sell_price = c.sell_price,
                                             !.profit_amount = c.profit_amount,
                                             !.profit_percentage = c.profit_percentage,
                                             !.fees = c.fees,
                                             !.net_profit = c.net_profit,
                                             !.detected_at = time]]
       ELSE Append(opps, opportunity_row(c, time))

NoCandidate == [skin_id |-> 0]

\* faulty variant of line 215: the comparison of the two sides is left out
no_marketplace_found(buy_marketplace, sell_marketplace) ==
    \/ buy_marketplace = NoText
    \/ sell_marketplace = NoText

\* line 215: no marketplace found, or one marketplace on both sides
no_cross_market_pair(buy_marketplace, sell_marketplace) ==
    \/ buy_marketplace = NoText
    \/ sell_marketplace = NoText
    \/ buy_marketplace = sell_marketplace

\* lines 201-235 of _analyze_skin_arbitrage, the gates, for the extreme
\* prices and their marketplaces: kind is "return" (no opportunity), "raise"
\* (ZeroDivisionError at line 220) or "upsert" (candidate goes to lines
\* 237-269)
analyze_gates(skin_id, min_price, max_price, buy_marketplace, sell_marketplace) ==
    LET profit_amount == max_price - min_price
        profit_percentage == <<profit_amount * 100, min_price>>
        fees == PriceMonitor_get_marketplace_fees(buy_marketplace, min_price)
                  + PriceMonitor_get_marketplace_fees(sell_marketplace, max_price)
        net_profit == profit_amount - fees
    IN IF spread_too_small(min_price, max_price)
       THEN [kind |-> "return", candidate |-> NoCandidate]
       ELSE IF no_cross_market_pair(buy_marketplace, sell_marketplace)
       THEN [kind |-> "return", candidate |-> NoCandidate]
       ELSE IF min_price = 0
       THEN [kind |-> "raise", candidate |-> NoCandidate]
       ELSE IF percentage_too_small(profit_percentage)
       THEN [kind |-> "return", candidate |-> NoCandidate]
       ELSE IF net_profit_not_positive(net_profit)
       THEN [kind |-> "return", candidate |-> NoCandidate]
       ELSE [kind |-> "upsert",
             candidate |-> [skin_id |-> skin_id,
                            buy_marketplace |-> buy_marketplace,
                            sell_marketplace |-> sell_marketplace,
                            buy_price |-> min_price,
                            sell_price |-> max_price,
                            profit_amount |-> profit_amount,
                            profit_percentage |-> profit_percentage,
                            fees |-> fees,
                            net_profit |-> net_profit]]

\* lines 205-213: the marketplaces of the extreme prices
analyze_extremes(skin_id, mp, min_price, max_price) ==
    Only({analyze_gates(skin_id, min_price, max_price, buy_marketplace, sell_marketplace) :
            buy_marketplace \in {buy_marketplace_of(mp, min_price)},
            sell_marketplace \in {sell_marketplace_of(mp, max_price)}})

\* lines 186-199: fewer than two recent prices end the analysis; otherwise
\* the prices are grouped by marketplace, and min_price and max_price are
\* taken over all recent prices
analyze_recent(skin_id, recent) ==
    IF Len(recent) < 2 THEN [kind |-> "return", candidate |-> NoCandidate]
    ELSE Only({analyze_extremes(skin_id, mp, min_price, max_price) :
                 mp \in {row_marketplace_prices_upto(recent, Len(recent))},
                 min_price \in {SeqMin([i \in 1..Len(recent) |-> recent[i].price])},
                 max_price \in {SeqMax([i \in 1..Len(recent) |-> recent[i].price])}})

\* lines 176-235 of _analyze_skin_arbitrage, up to the lookup
analyze_skin_arbitrage(rows, skin_id, time) ==
    Only({analyze_recent(skin_id, recent) :
            recent \in {recent_prices(rows, skin_id, time)}})

\* lines 166-168: the skins that have a price row in the window
skins_with_prices(rows, n_skins, time) ==
    {k \in 1..n_skins :
        \E i \in 1..Len(rows) : /\ rows[i].skin_id = k
                                /\ rows[i].timestamp >= time - RecentWindow}

\* the ledger writes that fail in one stretch of a task: <<"skin", j>> is
\* the commit of line 130 for item j of the cycle, <<"opportunity", k>> the
\* commit of line 269 for skin k
NoWriteFails == {}

\* line 171 for skin k, when the loop got to it with outcome before; when
\* the commit of line 269 raises, the row of this skin is not written and
\* the exception leaves _analyze_skin_arbitrage
analyze_skin(rows, before, k, time, write_fails) ==
    Only({IF r.kind = "raise" THEN [raised |-> TRUE, opps |-> before.opps]
          ELSE IF r.kind = "upsert"
          THEN IF <<"opportunity", k>> \in write_fails
               THEN [raised |-> TRUE, opps |-> before.opps]
               ELSE [raised |-> FALSE,
                     opps |-> upsert_opportunity(before.opps, r.candidate, time)]
          ELSE before :
            r \in {analyze_skin_arbitrage(rows, k, time)}})

\* lines 170-171: the loop over the skins 1..k with recent prices, in id
\* order; an exception of one analysis ends the loop, the rows committed
\* for the earlier skins stay
RECURSIVE analyze_skins_upto(_, _, _, _, _, _)
analyze_skins_upto(rows, opps, n_skins, k, time, write_fails) ==
    IF k = 0 THEN [raised |-> FALSE, opps |-> opps]
    ELSE Only({IF before.raised \/ k \notin skins_with_prices(rows, n_skins, time)
               THEN before
               ELSE analyze_skin(rows, before, k, time, write_fails) :
                 before \in {analyze_skins_upto(rows, opps, n_skins, k - 1, time,
                                                write_fails)}})

\* _detect_arbitrage_opportunities; db_fails: the query of lines 166-168
\* raises (the database is not reachable, or the join of Skin with Price,
\* written without an ON clause over tables that declare no foreign key,
\* is refused by the ORM)
detect_arbitrage_opportunities(rows, opps, n_skins, time, db_fails, write_fails) ==
    IF db_fails THEN [raised |-> TRUE, opps |-> opps]
    ELSE analyze_skins_upto(rows, opps, n_skins, n_skins, time, write_fails)

----------------------------------------------------------------------------
(* PriceMonitor: the scheduler *)

UpdateInterval == 300
BackoffDelay == 60
RateLimitDelay == 1
PopularCap == 100

MaxTasks == 2
MaxCycles == 2

TaskIds == 1..MaxTasks

\* a dict of get_popular_skins; name is NoText when the entry has no name
NoSkinInfo == [name |-> NoText, weapon |-> NoText]

\* lines 98-104: seen_names when the loop gets to entry i, the names of
\* the entries before it that have one
seen_names(all_skins, i) == {all_skins[j].name : j \in 1..(i - 1)} \ {NoText}

\* line 102 for the first n entries: the positions of the entries that are
\* appended to unique_skins
appended(all_skins, n) ==
    {i \in 1..n : /\ all_skins[i].name # NoText
                  /\ all_skins[i].name \notin seen_names(all_skins, i)}

\* lines 97-104: unique_skins after the first n entries, the appended
\* entries in the order of the list (the loop is not unfolded entry by
\* entry: the lists of the marketplaces have up to a hundred entries)
unique_skins_upto(all_skins, n) ==
    Only({[k \in 1..Cardinality(K) |->
              all_skins[CHOOSE i \in K : Cardinality({j \in K : j < i}) = k - 1]] :
            K \in {appended(all_skins, n)}})

\* faulty variant of line 106: the list is not cut
uncut_unique_skins(all_skins) == unique_skins_upto(all_skins, Len(all_skins))

unique_skins(all_skins) ==
    LET u == unique_skins_upto(all_skins, Len(all_skins))
    IN SubSeq(u, 1, IF Len(u) < PopularCap THEN Len(u) ELSE PopularCap)

\* line 119: the id of the first skin row of that name, 0 when there is none
skin_id_of(rows, name) ==
    IF \E i \in 1..Len(rows) : rows[i].name = name
    THEN CHOOSE i \in 1..Len(rows) :
            /\ rows[i].name = name
            /\ \A j \in 1..(i - 1) : rows[j].name # name
    ELSE 0

InCycle(t) == task[t].pc \in {"popular", "search", "rate_sleep"}
Sleeping(t) == task[t].pc \in {"rate_sleep", "interval_sleep", "backoff_sleep"}
Alive(t) == task[t].pc \notin {"unborn", "returned"}

\* cycles begun so far: the finished ones are in the logs
RECURSIVE CyclesOf(_)
CyclesOf(n) ==
    IF n = 0 THEN 0
    ELSE CyclesOf(n - 1) + Len(task[n].log) + (IF InCycle(n) THEN 1 ELSE 0)

CyclesBegun == CyclesOf(MaxTasks)

\* errors counts the item updates of the cycle that ended in the except
\* clause of line 77 (the errors logged at line 78)
UnbornTask == [pc |-> "unborn", mp |-> 0, all_skins |-> <<>>, popular_skins |-> <<>>,
               item |-> 0, skin_id |-> 0, errors |-> 0, wake |-> 0, log |-> <<>>]

\* faulty variant of the head of the loop: while True
loop_head_forever(tk, running) ==
    [tk EXCEPT !.pc = "popular", !.mp = 1, !.errors = 0, !.wake = 0]

\* line 53, the head of the while loop, for task record tk: when running
\* is true the task enters _monitor_prices and is suspended in the first
\* get_popular_skins (line 91); otherwise start_monitoring returns
loop_head(tk, running) ==
    IF running
    THEN [tk EXCEPT !.pc = "popular", !.mp = 1, !.errors = 0, !.wake = 0]
    ELSE [tk EXCEPT !.pc = "returned", !.wake = 0]

\* lines 44-53: start_monitoring is called (asyncio.create_task in main.py)
StartMonitoring(t) ==
    /\ task[t].pc = "unborn"
    /\ \A u \in TaskIds : u < t => task[u].pc # "unborn"
    /\ IF is_running
       THEN /\ task' = [task EXCEPT ![t].pc = "returned"]
            /\ UNCHANGED is_running
       ELSE /\ CyclesBegun < MaxCycles
            /\ is_running' = TRUE
            /\ task' = [task EXCEPT ![t] = loop_head(@, TRUE)]
    /\ UNCHANGED <<config, market, query, now, ledger>>

\* lines 61-64: stop_monitoring
StopMonitoring ==
    /\ is_running' = FALSE
    /\ UNCHANGED <<config, market, query, task, now, ledger>>

\* _monitor_prices is left: its locals are gone
cycle_end(tk) ==
    [tk EXCEPT !.mp = 0, !.all_skins = <<>>, !.popular_skins = <<>>,
               !.item = 0, !.skin_id = 0]

\* faulty variant of lines 54-59 without the except clause: the exception
\* of a cycle ends start_monitoring
after_cycle_unguarded(tk, raised, time) ==
    IF raised
    THEN [cycle_end(tk) EXCEPT !.pc = "returned", !.log = Append(@, "error")]
    ELSE [cycle_end(tk) EXCEPT !.pc = "interval_sleep",
                               !.wake = time + UpdateInterval,
                               !.log = Append(@, "completed")]

\* lines 54-59: _monitor_prices returned and line 56 sleeps the update
\* interval, or it raised, line 58 logs the error and line 59 sleeps the
\* backoff; log keeps the outcome of each cycle of the task
after_cycle(tk, raised, time) ==
    IF raised
    THEN [cycle_end(tk) EXCEPT !.pc = "backoff_sleep",
                               !.wake = time + BackoffDelay,
                               !.log = Append(@, "error")]
    ELSE [cycle_end(tk) EXCEPT !.pc = "interval_sleep",
                               !.wake = time + UpdateInterval,
                               !.log = Append(@, "completed")]

\* lines 73-78 and 119-131 from the head of the for loop at item j: an item
\* whose skin row is missing and whose commit of line 130 raises is left at
\* once, the exception is logged at line 78 and the loop goes on with the
\* next item without sleeping; the result is the first item from j on that
\* gets further, or the length of the list plus one
next_item(tk, j, write_fails) ==
    LET n == Len(tk.popular_skins)
        rest == {i \in j..n :
                    ~ /\ tk.popular_skins[i].name # NoText
                      /\ skin_id_of(skins, tk.popular_skins[i].name) = 0
                      /\ <<"skin", i>> \in write_fails}
    IN IF rest = {} THEN n + 1 ELSE CHOOSE i \in rest : \A k \in rest : i <= k

\* lines 73-83 from the head of the for loop at item j0, task record tk0,
\* price rows rows1; the items from j0 up to item j ended in the except
\* clause of line 77: either _update_skin_prices of item j runs up to its
\* first search_skin (line 136), or the loop is over and
\* _detect_arbitrage_opportunities runs, followed by the sleep of line 56
\* or, when it raised, the sleep of line 59
ContinueCycle(t, tk0, j0, rows1, db_fails, write_fails) ==
  \E j \in {next_item(tk0, j0, write_fails)} :
  \E tk \in {[tk0 EXCEPT !.errors = @ + (j - j0)]} :
    IF j <= Len(tk.popular_skins)
    THEN LET skin_info == tk.popular_skins[j]
             old == skin_id_of(skins, skin_info.name)
         IN IF skin_info.name = NoText
            THEN /\ task' = [task EXCEPT ![t] = [tk EXCEPT !.pc = "rate_sleep", !.item = j,
                                                          !.wake = now + RateLimitDelay]]
                 /\ UNCHANGED <<skins, arbitrage_opportunities>>
            ELSE /\ skins' = IF old = 0
                             THEN Append(skins, [name |-> skin_info.name,
                                                 weapon |-> skin_info.weapon])
                             ELSE skins
                 /\ task' = [task EXCEPT ![t] =
                        [tk EXCEPT !.pc = "search", !.item = j, !.mp = 1,
                                   !.skin_id = IF old = 0 THEN Len(skins) + 1 ELSE old]]
                 /\ UNCHANGED arbitrage_opportunities
    ELSE \E r \in {detect_arbitrage_opportunities(rows1, arbitrage_opportunities,
                                                  Len(skins), now, db_fails,
                                                  write_fails)} :
            /\ arbitrage_opportunities' = r.opps
            /\ task' = [task EXCEPT ![t] = after_cycle(tk, r.raised, now)]
            /\ UNCHANGED skins

\* lines 89-106: a get_popular_skins call returns or raises
PopularAnswer(t, answer, db_fails, write_fails) ==
    /\ task[t].pc = "popular"
    /\ \E all \in {IF answer.raises THEN task[t].all_skins
                    ELSE task[t].all_skins \o answer.skins} :
          IF task[t].mp < Len(Marketplaces)
          THEN /\ task' = [task EXCEPT ![t].all_skins = all, ![t].mp = @ + 1]
               /\ UNCHANGED ledger
          ELSE /\ \E tk \in {[task[t] EXCEPT !.all_skins = <<>>,
                                              !.popular_skins = unique_skins(all)]} :
                     ContinueCycle(t, tk, 1, prices, db_fails, write_fails)
               /\ UNCHANGED prices
    /\ UNCHANGED <<config, market, query, is_running, now>>

\* lines 134-156 and 76: a search_skin call returns or raises; when the
\* commit of line 150 raises (commit_fails) the rows of this marketplace are
\* not saved and line 152 logs it; after the last marketplace the task
\* sleeps the rate limit delay
SearchAnswer(t, answer, commit_fails) ==
    /\ task[t].pc = "search"
    /\ prices' = IF answer.raises \/ commit_fails THEN prices
                 ELSE save_prices(prices, task[t].skin_id, answer.prices, now)
    /\ task' = IF task[t].mp < Len(Marketplaces)
               THEN [task EXCEPT ![t].mp = @ + 1]
               ELSE [task EXCEPT ![t].pc = "rate_sleep", ![t].mp = 0, ![t].skin_id = 0,
                                 ![t].wake = now + RateLimitDelay]
    /\ UNCHANGED <<config, market, query, is_running, now, skins, arbitrage_opportunities>>

\* faulty variant of the for loop: it ends after one item, the detection
\* follows the first rate limit sleep
RateWakeToDetection(t, db_fails, write_fails) ==
    /\ task[t].pc = "rate_sleep"
    /\ now >= task[t].wake
    /\ \E r \in {detect_arbitrage_opportunities(prices, arbitrage_opportunities,
                                                 Len(skins), now, db_fails, write_fails)} :
          /\ arbitrage_opportunities' = r.opps
          /\ task' = [task EXCEPT ![t] = after_cycle(@, r.raised, now)]
    /\ UNCHANGED <<config, market, query, is_running, now, skins, prices>>

\* line 76 is over: next item, or detection and the sleep of the loop
RateWake(t, db_fails, write_fails) ==
    /\ task[t].pc = "rate_sleep"
    /\ now >= task[t].wake
    /\ ContinueCycle(t, task[t], task[t].item + 1, prices, db_fails, write_fails)
    /\ UNCHANGED <<config, market, query, is_running, now, prices>>

\* line 56 or line 59 is over: back to the head of the while loop
LoopWake(t) ==
    /\ task[t].pc \in {"interval_sleep", "backoff_sleep"}
    /\ now >= task[t].wake
    /\ is_running => CyclesBegun < MaxCycles
    /\ task' = [task EXCEPT ![t] = loop_head(@, is_running)]
    /\ UNCHANGED <<config, market, query, is_running, now, ledger>>

\* time passes up to the next moment a sleeping task is due
Tick ==
    /\ \E t \in TaskIds : Sleeping(t)
    /\ \A t \in TaskIds : Sleeping(t) => task[t].wake > now
    /\ now' = CHOOSE w \in {task[t].wake : t \in {u \in TaskIds : Sleeping(u)}} :
                  \A t \in TaskIds : Sleeping(t) => w <= task[t].wake
    /\ UNCHANGED <<config, market, query, is_running, task, ledger>>

----------------------------------------------------------------------------
(* SimplePriceMonitor: the on-demand calls *)

\* GET /skins/{skin_name}: search_skin_manual alone
SearchSkinManual(weapon, skin_name) ==
    /\ q_pc = "idle"
    /\ all_prices' = search_skin_manual(market.search)
    /\ q_pc' = "searched"
    /\ UNCHANGED <<config, market, request, found, fee_call, price_monitor, response,
                   is_running, task, now, ledger>>

\* faulty variant of the call: the list of opportunities is kept on the
\* monitor and every call appends to it
FindAndKeepOpportunities(weapon, skin_name) ==
    /\ q_pc \in {"idle", "found"}
    /\ all_prices' = search_skin_manual(market.search)
    /\ \E r \in {find_arbitrage_opportunities(all_prices', weapon, skin_name)} :
          found' = [raised |-> r.raised,
                    opportunities |-> found.opportunities \o r.opportunities]
    /\ q_pc' = "found"
    /\ UNCHANGED <<config, market, request, fee_call, price_monitor, response,
                   is_running, task, now, ledger>>

\* GET /opportunities?skin_name=...: find_arbitrage_opportunities, which
\* starts with its own search_skin_manual (line 57); the endpoint can be
\* called again
FindArbitrageOpportunities(weapon, skin_name) ==
    /\ q_pc \in {"idle", "found"}
    /\ all_prices' = search_skin_manual(market.search)
    /\ found' = find_arbitrage_opportunities(all_prices', weapon, skin_name)
    /\ q_pc' = "found"
    /\ UNCHANGED <<config, market, request, fee_call, price_monitor, response,
                   is_running, task, now, ledger>>

\* one call of _get_marketplace_fees of each monitor on the same arguments
GetMarketplaceFees(marketplace, price) ==
    /\ fee_call' = [called |-> TRUE,
                    marketplace |-> marketplace,
                    price |-> price,
                    simple |-> get_marketplace_fees(marketplace, price),
                    monitor |-> PriceMonitor_get_marketplace_fees(marketplace, price)]
    /\ UNCHANGED <<config, market, request, q_pc, all_prices, found, price_monitor,
                   response, is_running, task, now, ledger>>

----------------------------------------------------------------------------
(* The HTTP endpoints: src/src/api/routes.py (with PriceMonitor) and
   src/src/api/routes_simple.py (with SimplePriceMonitor), and the queries
   of the ledger *)

NoResponse == [endpoint |-> "none", status |-> 0, min_profit |-> 0, max_profit |-> 0,
               limit |-> 0, body |-> <<>>]

\* what the ledger and the scheduler are made of, and the on-demand
\* variables an endpoint leaves alone
service == <<config, market, request, q_pc, all_prices, found, fee_call, is_running,
             task, now>>

\* main.py lines 43-49, main_simple.py lines 41-46: the startup event sets
\* the global of the router; the task made by asyncio.create_task (line 44)
\* runs afterwards
Startup ==
    /\ ~ price_monitor
    /\ price_monitor' = TRUE
    /\ UNCHANGED <<service, response, ledger>>

\* routes.py lines 34-42: one entry of the list of a marketplace
price_dict(price) ==
    [price |-> price.price, condition |-> price.condition, stattrak |-> price.stattrak,
     souvenir |-> price.souvenir, url |-> price.url]

\* routes.py lines 30-42 (routes_simple.py lines 27-39): the quotes grouped
\* by marketplace
RECURSIVE prices_by_marketplace(_, _)
prices_by_marketplace(all, n) ==
    IF n = 0 THEN <<>>
    ELSE DictAppend(prices_by_marketplace(all, n - 1), all[n].marketplace,
                    price_dict(all[n]))

\* faulty variant of the endpoint: the quotes it gets are saved as Price
\* rows of skin 1
GetAndSaveSkinPrices(weapon, skin_name) ==
    /\ response' = [NoResponse EXCEPT !.endpoint = "skins", !.status = 200]
    /\ prices' = save_prices(prices, 1, search_skin_manual(market.search), now)
    /\ UNCHANGED <<service, price_monitor, skins, arbitrage_opportunities>>

\* GET /skins/{skin_name} of both routers (routes.py lines 15-52,
\* routes_simple.py lines 13-49): search_skin_manual of the monitor
\* (price_monitor.py lines 279-290, price_monitor_simple.py lines 41-53)
GetSkinPrices(weapon, skin_name) ==
    /\ response' =
          IF ~ price_monitor
          THEN [NoResponse EXCEPT !.endpoint = "skins", !.status = 503]
          ELSE \* prices = await price_monitor.search_skin_manual(skin_name, weapon)
               LET all == search_skin_manual(market.search)
               IN [NoResponse EXCEPT !.endpoint = "skins", !.status = 200,
                                     !.body = prices_by_marketplace(all, Len(all))]
    /\ UNCHANGED <<service, price_monitor, ledger>>

\* routes_simple.py line 80 and routes.py lines 65-66: profit_percentage
\* (num / den, den > 0) lies between the two bounds, both included
profit_in_range(profit_percentage, min_profit, max_profit) ==
    /\ min_profit * profit_percentage[2] <= profit_percentage[1]
    /\ profit_percentage[1] <= max_profit * profit_percentage[2]

\* price_monitor_simple.py lines 214-221: the lists of the marketplaces that
\* did not raise, in registry order
RECURSIVE all_skins_upto(_, _)
all_skins_upto(answers, n) ==
    IF n = 0 THEN <<>>
    ELSE all_skins_upto(answers, n - 1)
            \o (IF answers[n].raises THEN <<>> ELSE answers[n].skins)

\* SimplePriceMonitor.get_popular_skins(limit), price_monitor_simple.py
\* lines 212-233
get_popular_skins(answers, limit) ==
    LET all == all_skins_upto(answers, Len(Marketplaces))
        u == unique_skins_upto(all, Len(all))
    IN SubSeq(u, 1, IF Len(u) < limit THEN Len(u) ELSE limit)

PopularLimit == 10

\* routes_simple.py lines 68-75: the opportunities of the popular skins, one
\* find_arbitrage_opportunities(skin_name) after the other (weapon is None)
RECURSIVE popular_opportunities_upto(_, _, _)
popular_opportunities_upto(popular_skins, answers, n) ==
    IF n = 0 THEN [raised |-> FALSE, opportunities |-> <<>>]
    ELSE LET before == popular_opportunities_upto(popular_skins, answers, n - 1)
             name == popular_skins[n].name
         IN IF before.raised \/ name = NoText THEN before
            ELSE LET r == find_arbitrage_opportunities(search_skin_manual(answers),
                                                       NoText, name)
                 IN [raised |-> r.raised,
                     opportunities |-> before.opportunities \o r.opportunities]

\* routes_simple.py lines 63-75: the opportunities before the filter
endpoint_opportunities(weapon, skin_name) ==
    IF skin_name # NoText
    THEN find_arbitrage_opportunities(search_skin_manual(market.search), weapon, skin_name)
    ELSE LET popular_skins == get_popular_skins(market.popular, PopularLimit)
         IN popular_opportunities_upto(popular_skins, market.search, Len(popular_skins))

\* GET /opportunities of routes_simple.py, lines 51-94; an exception of the
\* detector ends in the except clause of line 93
GetOpportunitiesSimple(weapon, skin_name, min_profit, max_profit) ==
    /\ response' =
          IF ~ price_monitor
          THEN [NoResponse EXCEPT !.endpoint = "simple_opportunities", !.status = 503]
          ELSE LET r == endpoint_opportunities(weapon, skin_name)
                   filtered_opportunities ==
                       SelectSeq(r.opportunities,
                                 LAMBDA opp : profit_in_range(opp.profit_percentage,
                                                              min_profit, max_profit))
               IN IF r.raised
                  THEN [NoResponse EXCEPT !.endpoint = "simple_opportunities",
                                          !.status = 500]
                  ELSE [endpoint |-> "simple_opportunities", status |-> 200,
                        min_profit |-> min_profit, max_profit |-> max_profit,
                        limit |-> 0,
                        body |-> SortByNetProfitDesc(filtered_opportunities)]
    /\ UNCHANGED <<service, price_monitor, ledger>>

\* routes.py lines 63-66: the rows the filter of the query keeps
matching_rows(opps, min_profit, max_profit) ==
    {i \in 1..Len(opps) :
        /\ opps[i].is_active
        /\ profit_in_range(opps[i].profit_percentage, min_profit, max_profit)}

\* price_monitor.py lines 296-297: the active rows
active_rows(opps) == {i \in 1..Len(opps) : opps[i].is_active}

\* faulty variant of the ordering: the rows come in table order
table_order(opps, S, limit) ==
    LET n == IF Cardinality(S) < limit THEN Cardinality(S) ELSE limit
    IN {s \in [1..n -> S] : \A i, j \in 1..n : i < j => s[i] < s[j]}

\* order_by(net_profit.desc()).limit(limit).all() on the rows S: the ways to
\* list the limit first of them by falling net_profit; SQL leaves the order
\* of rows of equal net_profit open
ordered_limited(opps, S, limit) ==
    LET n == IF Cardinality(S) < limit THEN Cardinality(S) ELSE limit
    IN {s \in [1..n -> S] :
          /\ \A i, j \in 1..n : i < j =>
                /\ s[i] # s[j]
                /\ opps[s[i]].net_profit >= opps[s[j]].net_profit
          /\ \A k \in S : (\A i \in 1..n : s[i] # k) =>
                \A i \in 1..n : opps[s[i]].net_profit >= opps[k].net_profit}

\* models/skin.py lines 66-81 and routes.py lines 74-77: to_dict of a row
\* with the name and the weapon of its skin
opp_dict(opps, i) ==
    [id |-> i,
     skin_name |-> IF opps[i].skin_id \in 1..Len(skins)
                   THEN skins[opps[i].skin_id].name ELSE <<"Unknown">>,
     weapon |-> IF opps[i].skin_id \in 1..Len(skins)
                THEN skins[opps[i].skin_id].weapon ELSE <<"Unknown">>]
        @@ opps[i]

\* GET /opportunities of routes.py, lines 54-88; db_fails: a query raises
\* and the except clause of line 87 answers
GetArbitrageOpportunities(min_profit, max_profit, limit, db_fails) ==
    /\ IF db_fails
       THEN response' = [NoResponse EXCEPT !.endpoint = "opportunities", !.status = 500]
       ELSE \E s \in ordered_limited(arbitrage_opportunities,
                                     matching_rows(arbitrage_opportunities,
                                                   min_profit, max_profit),
                                     limit) :
               response' = [endpoint |-> "opportunities", status |-> 200,
                            min_profit |-> min_profit, max_profit |-> max_profit,
                            limit |-> limit,
                            body |-> [i \in 1..Len(s) |->
                                        opp_dict(arbitrage_opportunities, s[i])]]
    /\ UNCHANGED <<service, price_monitor, ledger>>

CurrentLimit == 50

\* PriceMonitor.get_current_opportunities, price_monitor.py lines 292-302
GetCurrentOpportunities ==
    /\ \E s \in ordered_limited(arbitrage_opportunities,
                                active_rows(arbitrage_opportunities), CurrentLimit) :
          response' = [endpoint |-> "current", status |-> 200,
                       min_profit |-> 0, max_profit |-> 0, limit |-> CurrentLimit,
                       body |-> [i \in 1..Len(s) |-> [id |-> s[i]] @@
                                                     arbitrage_opportunities[s[i]]]]
    /\ UNCHANGED <<service, price_monitor, ledger>>

----------------------------------------------------------------------------
(* The environment: configurations and marketplace answers *)

FactoryNew == <<"F","a","c","t","o","r","y"," ","N","e","w">>

Redline == [name |-> <<"Redline">>, weapon |-> <<"AK-47">>]

\* item variants a listing can be of
Variants == {[condition |-> FactoryNew, stattrak |-> FALSE, souvenir |-> FALSE],
             [condition |-> FactoryNew, stattrak |-> TRUE, souvenir |-> FALSE]}

PlainVariant == [condition |-> FactoryNew, stattrak |-> FALSE, souvenir |-> FALSE]

\* the SkinPrice the i-th marketplace client builds for a listing
SkinPrice(i, price, v) ==
    [marketplace |-> Marketplaces[i],
     price |-> price,
     available |-> TRUE,
     url |-> IF Marketplaces[i] = CSFloatName THEN "https://csfloat.com/item/1"
             ELSE "https://steamcommunity.com/market/listings/730/1",
     condition |-> v.condition,
     stattrak |-> v.stattrak,
     souvenir |-> v.souvenir]

SeqsUpTo(S, n) == UNION {[1..k -> S] : k \in 0..n}

SearchAnswers(S, n) ==
    {[raises |-> TRUE, prices |-> <<>>]}
        \cup {[raises |-> FALSE, prices |-> q] : q \in SeqsUpTo(S, n)}

\* UPDATE_INTERVAL is left at its default; MIN_PROFIT_THRESHOLD and
\* MAX_PRICE_DIFFERENCE: the defaults (5 percent, 50 dollars) and two others
Configs == {<<5, 50000>>, <<5, 5000>>, <<30, 5000>>}

(* the on-demand scenario: one market state, answered to every call *)

MaxQuotes == 3

DigitChars == <<"0", "1", "2", "3", "4", "5", "6", "7", "8", "9">>

digit_value(c) == (CHOOSE d \in 1..10 : DigitChars[d] = c) - 1

\* the number a sequence of digits writes
RECURSIVE int_of(_)
int_of(digits) ==
    IF digits = <<>> THEN 0
    ELSE 10 * int_of(SubSeq(digits, 1, Len(digits) - 1))
            + digit_value(digits[Len(digits)])

\* float(text) of a text of digits and points, in thousandths: the empty
\* set stands for the ValueError of a text without a digit or with more
\* than one point
float_of(text) ==
    LET points == {i \in 1..Len(text) : text[i] = "."}
        dot == IF points = {} THEN Len(text) + 1 ELSE CHOOSE i \in points : TRUE
        whole == SubSeq(text, 1, dot - 1)
        frac == SubSeq(text, dot + 1, Len(text))
        thousandths == SubSeq(frac \o <<"0", "0", "0">>, 1, 3)
    IN IF Cardinality(points) > 1 \/ Len(whole) + Len(frac) = 0 THEN {}
       ELSE {1000 * int_of(whole) + int_of(thousandths)}

\* steam.py lines 249-254 and 281-283: the price of the quote built from a
\* listing with this sell_price_text; the empty set when the listing gives
\* no quote
steam_price(price_text) ==
    IF price_text = <<>> THEN {}
    ELSE float_of(SelectSeq(price_text,
                            LAMBDA c : c = "." \/ \E d \in 1..10 : DigitChars[d] = c))

\* csfloat.py lines 225-232 and 287: the price of the quote built from a
\* listing with this price field, a dict with or without the key usd or a
\* bare number, in thousandths; the empty set when the listing is skipped
price_usd(price_info) ==
    LET usd == IF price_info.dict
               THEN (IF price_info.has_usd THEN price_info.usd ELSE 0)
               ELSE price_info.usd
    IN IF usd = 0 THEN {} ELSE {usd}

\* the sell_price_text of the listings Steam answers with: prices, the
\* price of an item nobody sells, no text, a text without a price
SteamPriceTexts ==
    {<<"$", "0", ".", "0", "0">>,
     <<"$", "1", "0", "0", ".", "0", "0">>,
     <<"$", "1", "0", "3", ".", "0", "0">>,
     <<"$", "1", "2", "0", ".", "0", "0">>,
     <<>>,
     <<"S", "o", "l", "d", "!">>}

\* the price fields of the listings CSFloat answers with
CSFloatPriceInfos ==
    {[dict |-> TRUE, has_usd |-> TRUE, usd |-> 100000],
     [dict |-> TRUE, has_usd |-> TRUE, usd |-> 0],
     [dict |-> TRUE, has_usd |-> FALSE, usd |-> 0],
     [dict |-> FALSE, has_usd |-> FALSE, usd |-> 120000],
     [dict |-> FALSE, has_usd |-> FALSE, usd |-> 0]}

\* the prices of the quotes the clients build from these listings
DetectPrices(i) ==
    IF Marketplaces[i] = CSFloatName
    THEN UNION {price_usd(price_info) : price_info \in CSFloatPriceInfos}
    ELSE UNION {steam_price(price_text) : price_text \in SteamPriceTexts}

DetectQuotes(i) == {SkinPrice(i, p, v) : p \in DetectPrices(i), v \in Variants}

DetectMarkets ==
    {[popular |-> <<[raises |-> FALSE, skins |-> <<Redline>>],
                    [raises |-> FALSE, skins |-> <<Redline>>]>>,
      search |-> <<a, b>>] :
        <<a, b>> \in {x \in SearchAnswers(DetectQuotes(1), MaxQuotes)
                              \X SearchAnswers(DetectQuotes(2), MaxQuotes) :
                          Len(x[1].prices) + Len(x[2].prices) <= MaxQuotes}}

(* the scheduler scenarios: every call is answered anew; the configuration
   is the default one *)

SchedConfigs == {<<5, 50000>>}

\* start_monitoring and stop_monitoring called at any time: each marketplace
\* has one listing of the one popular skin
SchedPrices(i) ==
    IF Marketplaces[i] = CSFloatName THEN {100000} ELSE {200000}

SchedSearchAnswers(i) ==
    {[raises |-> FALSE, prices |-> <<SkinPrice(i, p, PlainVariant)>>] :
        p \in SchedPrices(i)}

SchedPopularAnswers == {[raises |-> FALSE, skins |-> <<Redline>>]}

\* one loop that is never stopped: the listings change from cycle to cycle
LedgerPrices(i) ==
    IF Marketplaces[i] = CSFloatName THEN {100000, 300000}
    ELSE {140000, 200000, 250000}

\* search_skin raises, or returns nothing or one listing of the plain item
LedgerSearchAnswers(i) ==
    {[raises |-> TRUE, prices |-> <<>>], [raises |-> FALSE, prices |-> <<>>]}
        \cup {[raises |-> FALSE, prices |-> <<SkinPrice(i, p, PlainVariant)>>] :
                 p \in LedgerPrices(i)}

\* get_popular_skins raises, or returns nothing, the one popular skin, or
\* an entry without a name
LedgerPopularAnswers ==
    {[raises |-> TRUE, skins |-> <<>>],
     [raises |-> FALSE, skins |-> <<>>],
     [raises |-> FALSE, skins |-> <<Redline>>],
     [raises |-> FALSE, skins |-> <<NoSkinInfo>>]}

(* one loop over two popular skins that can be stopped, with ledger writes
   that fail; the queries of the ledger do not fail *)

Asiimov == [name |-> <<"Asiimov">>, weapon |-> <<"AWP">>]

CycleSkins == <<Redline, Asiimov>>

\* get_popular_skins returns both skins or the first one
CyclePopularAnswers ==
    {[raises |-> FALSE, skins |-> CycleSkins],
     [raises |-> FALSE, skins |-> <<Redline>>]}

\* the commits of lines 130 and 269 that can raise in a cycle
CycleWritePoints ==
    {<<"skin", j>> : j \in 1..Len(CycleSkins)}
        \cup {<<"opportunity", k>> : k \in 1..Len(CycleSkins)}

(* the on-demand calls on their own: condition texts as the marketplaces
   send them, several listings of a marketplace, requests without a weapon *)

FactoryNewLower == <<"f","a","c","t","o","r","y"," ","n","e","w">>
FactoryNewPadded == <<"F","a","c","t","o","r","y"," ","N","e","w"," ">>

\* CSFloat passes on the wear name of the listing as it gets it
\* (csfloat.py line 240); Steam takes the condition from its own list
\* (steam.py lines 328-331)
QueryConditions(i) ==
    IF Marketplaces[i] = CSFloatName
    THEN {FactoryNew, FactoryNewLower, FactoryNewPadded}
    ELSE {FactoryNew}

QueryPrices == {100000, 200000}

\* a second listing of the i-th marketplace
SecondListing(i, price, v) ==
    [SkinPrice(i, price, v) EXCEPT
        !.url = IF Marketplaces[i] = CSFloatName THEN "https://csfloat.com/item/2"
                ELSE "https://steamcommunity.com/market/listings/730/2"]

\* the listings a marketplace can return: CSFloat has two listings at the
\* lower price
QueryQuotes(i) ==
    {SkinPrice(i, p, [condition |-> c, stattrak |-> FALSE, souvenir |-> FALSE]) :
        p \in QueryPrices, c \in QueryConditions(i)}
      \cup (IF Marketplaces[i] = CSFloatName
            THEN {SecondListing(i, p, PlainVariant) : p \in {Least(QueryPrices)}}
            ELSE {})

QueryMarkets ==
    {[popular |-> <<>>, search |-> <<a, b>>] :
        <<a, b>> \in {x \in SearchAnswers(QueryQuotes(1), MaxQuotes)
                              \X SearchAnswers(QueryQuotes(2), MaxQuotes) :
                          Len(x[1].prices) + Len(x[2].prices) <= MaxQuotes}}

\* GET /opportunities with skin_name and weapon, and with skin_name alone
\* (weapon is None)
QueryRequests ==
    {[weapon |-> Redline.weapon, skin_name |-> Redline.name],
     [weapon |-> NoText, skin_name |-> Redline.name]}

(* the fee lookup on its own: marketplace labels and prices *)

\* labels that are a registered name, a registered name in another case or
\* inside a longer label, both names, a part of a name, or no name at all
FeeLabels ==
    {CSFloatName,
     SteamName,
     <<"c","s","f","l","o","a","t">>,
     <<"S","T","E","A","M">>,
     <<"S","t","e","a","m"," ","M","a","r","k","e","t">>,
     <<"m","y","C","S","F","L","O","A","T">>,
     <<"S","t","e","a","m","/","C","S","F","l","o","a","t">>,
     <<"C","S","F","l","o","a","t","/","S","t","e","a","m">>,
     <<"S","t","e","a">>,
     <<"C","S"," ","F","l","o","a","t">>,
     <<"B","i","t","S","k","i","n","s">>,
     NoText}

FeePrices == {0, 40, 1000, 10000, 16000, 100000, 120000, 200000, 250000, 300000}

NoFeeCall == [called |-> FALSE, marketplace |-> NoText, price |-> 0,
              simple |-> 0, monitor |-> 0]

\* in one stretch of the task no commit raises, or one does
CycleWriteFails == {NoWriteFails} \cup {{w} : w \in CycleWritePoints}

NoMarket == [popular |-> <<>>, search |-> <<>>]

NotCalled == [raised |-> FALSE, opportunities |-> <<>>]

(* the service: the scheduler runs while the endpoints are called *)

\* the clients answer the on-demand calls with no quote, with a spread that
\* passes the gates, or with one that does not
ServeSearch ==
    {<<[raises |-> FALSE, prices |-> <<>>], [raises |-> FALSE, prices |-> <<>>]>>,
     <<[raises |-> FALSE, prices |-> <<SkinPrice(1, 100000, PlainVariant)>>],
       [raises |-> FALSE, prices |-> <<SkinPrice(2, 200000, PlainVariant)>>]>>,
     <<[raises |-> FALSE, prices |-> <<SkinPrice(1, 100000, PlainVariant)>>],
       [raises |-> FALSE, prices |-> <<SkinPrice(2, 103000, PlainVariant)>>]>>}

ServeMarkets ==
    {[popular |-> <<[raises |-> FALSE, skins |-> CycleSkins],
                    [raises |-> FALSE, skins |-> <<Redline>>]>>,
      search |-> x] : x \in ServeSearch}

\* in a cycle Steam lists a skin at one of two prices
ServePrices(i) ==
    IF Marketplaces[i] = CSFloatName THEN {100000} ELSE {200000, 250000}

ServeSearchAnswers(i) ==
    {[raises |-> FALSE, prices |-> <<SkinPrice(i, p, PlainVariant)>>] :
        p \in ServePrices(i)}

\* GET /opportunities of routes_simple.py with a skin name and a weapon,
\* and without both; min_profit and max_profit: the defaults, one percentage
\* alone, and a range above it
ServeRequests ==
    {[weapon |-> Redline.weapon, skin_name |-> Redline.name, min_profit |-> r[1],
      max_profit |-> r[2]] : r \in {<<0, 1000>>, <<100, 100>>, <<101, 1000>>}}
      \cup {[weapon |-> NoText, skin_name |-> NoText, min_profit |-> 0,
              max_profit |-> 1000]}

\* GET /opportunities of routes.py: the defaults, one row, one percentage
\* alone, a range above it, and a query of the ledger that raises
LedgerRequests ==
    {[min_profit |-> 0, max_profit |-> 1000, limit |-> 50, db_fails |-> FALSE],
     [min_profit |-> 0, max_profit |-> 1000, limit |-> 1, db_fails |-> FALSE],
     [min_profit |-> 100, max_profit |-> 100, limit |-> 50, db_fails |-> FALSE],
     [min_profit |-> 101, max_profit |-> 1000, limit |-> 50, db_fails |-> FALSE],
     [min_profit |-> 0, max_profit |-> 1000, limit |-> 50, db_fails |-> TRUE]}

(* the seed list: what the marketplaces answer to get_popular_skins *)

Digits == <<"0", "1", "2", "3", "4", "5", "6", "7", "8", "9">>

\* the i-th of a series of skins with different names
NumberedSkin(i) ==
    [name |-> <<"#", Digits[(i \div 100) + 1], Digits[((i \div 10) % 10) + 1],
                Digits[(i % 10) + 1]>>,
     weapon |-> <<"AK-47">>]

NumberedSkins(a, b) == [i \in 1..(b - a + 1) |-> NumberedSkin(a + i - 1)]

\* get_popular_skins raises, or returns nothing, one skin, an entry without
\* a name before a skin, a skin twice, or a long list
SeedPopularAnswers ==
    {[raises |-> TRUE, skins |-> <<>>]}
      \cup {[raises |-> FALSE, skins |-> l] :
              l \in {<<>>, <<Redline>>, <<NoSkinInfo, Redline>>,
                     <<Asiimov, Redline, Asiimov>>,
                     NumberedSkins(1, 60), NumberedSkins(41, 110)}}

SeedMarkets ==
    {[popular |-> <<a, b>>, search |-> <<>>] : a, b \in SeedPopularAnswers}

----------------------------------------------------------------------------
(* Specifications *)

InitCommon ==
    /\ request \in {[weapon |-> Redline.weapon, skin_name |-> Redline.name]}
    /\ all_prices = <<>>
    /\ found = NotCalled
    /\ fee_call = NoFeeCall
    /\ price_monitor = TRUE
    /\ response = NoResponse
    /\ is_running = FALSE
    /\ task = [t \in TaskIds |-> UnbornTask]
    /\ now = 0
    /\ skins = <<>>
    /\ prices = <<>>
    /\ arbitrage_opportunities = <<>>

\* the scheduler with its ledger; the marketplaces answer each call anew
Init ==
    /\ \E c \in SchedConfigs : min_profit_threshold = c[1] /\ max_price_difference = c[2]
    /\ market = NoMarket
    /\ q_pc = "off"
    /\ InitCommon

Next ==
    \/ \E t \in TaskIds : StartMonitoring(t)
    \/ StopMonitoring
    \/ \E t \in TaskIds, a \in SchedPopularAnswers, f \in BOOLEAN :
          PopularAnswer(t, a, f, NoWriteFails)
    \/ \E t \in {u \in TaskIds : task[u].pc = "search"} :
          \E a \in SchedSearchAnswers(task[t].mp) : SearchAnswer(t, a, FALSE)
    \/ \E t \in TaskIds, f \in BOOLEAN : RateWake(t, f, NoWriteFails)
    \/ \E t \in TaskIds : LoopWake(t)
    \/ Tick

Spec == Init /\ [][Next]_vars

\* the steps of one start_monitoring task
TaskStep(t) ==
    \/ \E a \in SchedPopularAnswers, f \in BOOLEAN : PopularAnswer(t, a, f, NoWriteFails)
    \/ /\ task[t].pc = "search"
       /\ \E a \in SchedSearchAnswers(task[t].mp) : SearchAnswer(t, a, FALSE)
    \/ \E f \in BOOLEAN : RateWake(t, f, NoWriteFails)
    \/ LoopWake(t)

\* the event loop runs every task that is ready, every call to a
\* marketplace returns or raises, and time passes
SpecFair ==
    /\ Spec
    /\ \A t \in TaskIds : WF_vars(TaskStep(t))
    /\ WF_vars(Tick)

NextLedger ==
    \/ StartMonitoring(1)
    \/ \E a \in LedgerPopularAnswers : PopularAnswer(1, a, FALSE, NoWriteFails)
    \/ \E t \in {u \in {1} : task[u].pc = "search"} :
          \E a \in LedgerSearchAnswers(task[t].mp) : SearchAnswer(t, a, FALSE)
    \/ RateWake(1, FALSE, NoWriteFails)
    \/ LoopWake(1)
    \/ Tick

SpecLedger == Init /\ [][NextLedger]_vars

NextCycle ==
    \/ StartMonitoring(1)
    \/ StopMonitoring
    \/ \E a \in CyclePopularAnswers, w \in CycleWriteFails :
          PopularAnswer(1, a, FALSE, w)
    \/ \E t \in {u \in {1} : task[u].pc = "search"} :
          \E a \in SchedSearchAnswers(task[t].mp), c \in BOOLEAN : SearchAnswer(t, a, c)
    \/ \E w \in CycleWriteFails : RateWake(1, FALSE, w)
    \/ LoopWake(1)
    \/ Tick

SpecCycle == Init /\ [][NextCycle]_vars

\* the on-demand path alone: one market state, one request, asked again
\* and again
InitQuery ==
    /\ \E c \in SchedConfigs : min_profit_threshold = c[1] /\ max_price_difference = c[2]
    /\ market \in QueryMarkets
    /\ request \in QueryRequests
    /\ q_pc = "idle"
    /\ all_prices = <<>>
    /\ found = NotCalled
    /\ fee_call = NoFeeCall
    /\ price_monitor = TRUE
    /\ response = NoResponse
    /\ is_running = FALSE
    /\ task = [t \in TaskIds |-> UnbornTask]
    /\ now = 0
    /\ skins = <<>>
    /\ prices = <<>>
    /\ arbitrage_opportunities = <<>>

NextQuery ==
    \/ SearchSkinManual(request.weapon, request.skin_name)
    \/ FindArbitrageOpportunities(request.weapon, request.skin_name)

SpecQuery == InitQuery /\ [][NextQuery]_vars

NextFees ==
    \E marketplace \in FeeLabels, price \in FeePrices :
        GetMarketplaceFees(marketplace, price)

SpecFees == Init /\ [][NextFees]_vars

\* the service of main.py with the endpoints of both routers: the
\* scheduler loop runs, the endpoints are called at any time
InitServe ==
    /\ \E c \in SchedConfigs : min_profit_threshold = c[1] /\ max_price_difference = c[2]
    /\ market \in ServeMarkets
    /\ request \in {[weapon |-> Redline.weapon, skin_name |-> Redline.name]}
    /\ q_pc = "off"
    /\ all_prices = <<>>
    /\ found = NotCalled
    /\ fee_call = NoFeeCall
    /\ price_monitor = FALSE
    /\ response = NoResponse
    /\ is_running = FALSE
    /\ task = [t \in TaskIds |-> UnbornTask]
    /\ now = 0
    /\ skins = <<>>
    /\ prices = <<>>
    /\ arbitrage_opportunities = <<>>

NextServe ==
    \/ Startup
    \/ price_monitor /\ StartMonitoring(1)
    \/ PopularAnswer(1, market.popular[task[1].mp], FALSE, NoWriteFails)
    \/ \E t \in {u \in {1} : task[u].pc = "search"} :
          \E a \in ServeSearchAnswers(task[t].mp) : SearchAnswer(t, a, FALSE)
    \/ RateWake(1, FALSE, NoWriteFails)
    \/ LoopWake(1)
    \/ Tick
    \/ GetSkinPrices(request.weapon, request.skin_name)
    \/ \E r \in ServeRequests :
          GetOpportunitiesSimple(r.weapon, r.skin_name, r.min_profit, r.max_profit)
    \/ \E r \in LedgerRequests :
          GetArbitrageOpportunities(r.min_profit, r.max_profit, r.limit, r.db_fails)
    \/ GetCurrentOpportunities

SpecServe == InitServe /\ [][NextServe]_vars

\* the start of a cycle: _get_popular_skins on the answers of the
\* marketplaces, up to the first search_skin of the cycle
InitSeed ==
    /\ \E c \in SchedConfigs : min_profit_threshold = c[1] /\ max_price_difference = c[2]
    /\ market \in SeedMarkets
    /\ q_pc = "off"
    /\ InitCommon

NextSeed ==
    \/ StartMonitoring(1)
    \/ PopularAnswer(1, market.popular[task[1].mp], FALSE, NoWriteFails)

SpecSeed == InitSeed /\ [][NextSeed]_vars

\* one market state: an on-demand call and then one cycle of the scheduler
\* see the same quotes
InitDetect ==
    /\ \E c \in Configs : min_profit_threshold = c[1] /\ max_price_difference = c[2]
    /\ market \in DetectMarkets
    /\ q_pc = "idle"
    /\ InitCommon

NextDetect ==
    \/ SearchSkinManual(Redline.weapon, Redline.name)
    \/ q_pc = "idle" /\ FindArbitrageOpportunities(Redline.weapon, Redline.name)
    \/ q_pc = "found" /\ StartMonitoring(1)
    \/ PopularAnswer(1, market.popular[task[1].mp], FALSE, NoWriteFails)
    \/ SearchAnswer(1, market.search[task[1].mp], FALSE)
    \/ RateWake(1, FALSE, NoWriteFails)
    \/ Tick

SpecDetect == InitDetect /\ [][NextDetect]_vars

----------------------------------------------------------------------------
(* Properties of the detectors, under SpecDetect *)

\* positions of a sequence
Pos(s) == 1..Len(s)

\* two records (quotes or opportunities) describe the same item variant
SameItem(a, b) ==
    /\ ReplaceSpace(Lower(a.condition)) = ReplaceSpace(Lower(b.condition))
    /\ a.stattrak = b.stattrak
    /\ a.souvenir = b.souvenir

\* the on-demand detection has returned a value
Found == q_pc = "found" /\ ~found.raised

\* the one cycle of the scheduler is over, detection included
CycleDone == task[1].log # <<>>

\* the marketplaces quoted in a sequence of quotes or price rows
MarketsIn(s) == {s[i].marketplace : i \in Pos(s)}

\* C1: every opportunity returned by find_arbitrage_opportunities has a
\* positive net profit, a profit percentage of at least min_profit_threshold
\* and a gross spread of at least max_price_difference; when no two quotes
\* of the call are max_price_difference apart, nothing is returned
C1_OpportunitiesPassGates ==
    /\ \A i \in Pos(found.opportunities) :
          LET o == found.opportunities[i]
          IN /\ o.net_profit > 0
             /\ o.profit_percentage[2] > 0
             /\ o.profit_percentage[1] >= min_profit_threshold * o.profit_percentage[2]
             /\ o.sell_price - o.buy_price >= max_price_difference
             /\ o.profit_amount = o.sell_price - o.buy_price
    /\ (Found /\ \A i, j \in Pos(all_prices) :
                    all_prices[j].price - all_prices[i].price < max_price_difference)
          => found.opportunities = <<>>

C1_Witness ==
    /\ Found
    /\ Len(found.opportunities) > 0
    /\ found.opportunities[1].sell_price - found.opportunities[1].buy_price
          = max_price_difference * 4

\* C2: an opportunity of either detector buys on one marketplace and sells
\* on another; quotes of a single marketplace yield no opportunity
C2_CrossMarketOnly ==
    /\ \A i \in Pos(found.opportunities) :
          found.opportunities[i].buy_marketplace # found.opportunities[i].sell_marketplace
    /\ \A i \in Pos(arbitrage_opportunities) :
          arbitrage_opportunities[i].buy_marketplace
              # arbitrage_opportunities[i].sell_marketplace
    /\ Cardinality(MarketsIn(all_prices)) <= 1 => found.opportunities = <<>>
    /\ Cardinality(MarketsIn(prices)) <= 1 => arbitrage_opportunities = <<>>

C2_Witness ==
    /\ Found
    /\ CycleDone
    /\ Len(found.opportunities) > 0
    /\ Len(arbitrage_opportunities) > 0
    /\ \E i, j \in Pos(all_prices) :
          i # j /\ all_prices[i].marketplace = all_prices[j].marketplace

\* the cheapest price quoted on marketplace m for the item variant of o
CheapestOn(quotes, o, m) ==
    LET ps == {quotes[i].price : i \in {k \in Pos(quotes) :
                    SameItem(quotes[k], o) /\ quotes[k].marketplace = m}}
    IN CHOOSE p \in ps : \A r \in ps : p <= r

\* the marketplaces that quote the item variant of o
MarketsOf(quotes, o) ==
    {quotes[i].marketplace : i \in {k \in Pos(quotes) : SameItem(quotes[k], o)}}

\* C3: in an opportunity of the stateless detector the buy side is the
\* least and the sell side the greatest of the per-marketplace cheapest
\* quotes of the item
C3_MinMaxOfCheapest ==
    \A i \in Pos(found.opportunities) :
        LET o == found.opportunities[i]
            ms == MarketsOf(all_prices, o)
        IN /\ o.buy_marketplace \in ms
           /\ o.sell_marketplace \in ms
           /\ o.buy_price = CheapestOn(all_prices, o, o.buy_marketplace)
           /\ o.sell_price = CheapestOn(all_prices, o, o.sell_marketplace)
           /\ \A m \in ms : /\ o.buy_price <= CheapestOn(all_prices, o, m)
                            /\ o.sell_price >= CheapestOn(all_prices, o, m)

\* an opportunity whose buy marketplace also has a quote as dear as the sell
\* price: the cheapest quote of that marketplace is the one that counts
C3_Witness ==
    /\ Found
    /\ \E i \in Pos(found.opportunities) : \E k \in Pos(all_prices) :
          LET o == found.opportunities[i]
          IN /\ SameItem(all_prices[k], o)
             /\ all_prices[k].marketplace = o.buy_marketplace
             /\ all_prices[k].price >= o.sell_price

\* the buy and sell sides of an opportunity or of a ledger row
Sides(o) == <<o.buy_marketplace, o.buy_price, o.sell_marketplace, o.sell_price>>

\* all quotes of the call are of one item variant
OneItem == \A i, j \in Pos(all_prices) : SameItem(all_prices[i], all_prices[j])

\* C4: on the same quotes of one item the detector of the scheduler path
\* records exactly what the stateless detector returns: the same number of
\* opportunities, with the same marketplaces and prices
C4_SameDecision ==
    (Found /\ CycleDone /\ task[1].log = <<"completed">> /\ OneItem)
        => /\ Len(arbitrage_opportunities) = Len(found.opportunities)
           /\ \A i \in Pos(found.opportunities) :
                 \E j \in Pos(arbitrage_opportunities) :
                     Sides(arbitrage_opportunities[j]) = Sides(found.opportunities[i])

\* Steam quotes the item at 100.00 and 120.00, CSFloat at 120.00, thresholds
\* 5 percent and 5 dollars: the stateless detector returns Steam -> CSFloat,
\* the scheduler path records nothing
C4_Witness ==
    /\ Found /\ CycleDone /\ OneItem
    /\ task[1].log = <<"completed">>
    /\ min_profit_threshold = 5 /\ max_price_difference = 5000
    /\ [i \in Pos(all_prices) |-> <<all_prices[i].marketplace, all_prices[i].price>>]
          = <<<<CSFloatName, 120000>>, <<SteamName, 100000>>, <<SteamName, 120000>>>>
    /\ Len(found.opportunities) = 1
    /\ Sides(found.opportunities[1]) = <<SteamName, 100000, CSFloatName, 120000>>
    /\ arbitrage_opportunities = <<>>

\* two quotes of one item variant stand behind the sides of o
PairedWithinItem(o) ==
    \E i, j \in Pos(all_prices) :
        /\ SameItem(all_prices[i], all_prices[j])
        /\ all_prices[i].marketplace = o.buy_marketplace
        /\ all_prices[i].price = o.buy_price
        /\ all_prices[j].marketplace = o.sell_marketplace
        /\ all_prices[j].price = o.sell_price

\* C5: both detectors pair only quotes of the same ItemIdentity: behind
\* every returned opportunity and behind every recorded row there are two
\* quotes of one item variant
C5_SameIdentityPairs ==
    /\ \A i \in Pos(found.opportunities) : PairedWithinItem(found.opportunities[i])
    /\ (Found /\ CycleDone) =>
          \A i \in Pos(arbitrage_opportunities) :
              PairedWithinItem(arbitrage_opportunities[i])

\* Steam quotes the plain item at 100.00, CSFloat the StatTrak item at
\* 120.00: nothing is returned on demand, the scheduler path records
\* Steam -> CSFloat
C5_Witness ==
    /\ Found /\ CycleDone
    /\ Len(all_prices) = 2
    /\ all_prices[1].stattrak /\ ~all_prices[2].stattrak
    /\ found.opportunities = <<>>
    /\ Len(arbitrage_opportunities) = 1
    /\ Sides(arbitrage_opportunities[1]) = <<SteamName, 100000, CSFloatName, 120000>>

\* what the marketplaces that did not raise returned, in registry order
Returned ==
    (IF market.search[1].raises THEN <<>> ELSE market.search[1].prices)
        \o (IF market.search[2].raises THEN <<>> ELSE market.search[2].prices)

\* the scheduler task is past the search_skin calls of its item
UpdateDone == task[1].pc \in {"rate_sleep", "interval_sleep", "backoff_sleep"}

\* C7: a marketplace that raises does not make search_skin_manual or the
\* per-item update of the scheduler raise; the result is the concatenation,
\* in registry order and without deduplication, of the quotes of the other
\* marketplaces, and detection runs on those
C7_FailureIsolation ==
    /\ q_pc \in {"searched", "found"} => all_prices = Returned
    /\ UpdateDone =>
          /\ Len(prices) = Len(Returned)
          /\ \A i \in Pos(prices) : /\ prices[i].marketplace = Returned[i].marketplace
                                    /\ prices[i].price = Returned[i].price
                                    /\ prices[i].skin_id = 1
    /\ (q_pc = "found" /\ \A i \in Pos(Returned) : Returned[i].price > 0)
          => /\ ~found.raised
             /\ \A i \in Pos(found.opportunities) :
                   PairedWithinItem(found.opportunities[i])
    /\ (CycleDone /\ \A i \in Pos(Returned) : Returned[i].price > 0)
          => task[1].log = <<"completed">>

\* CSFloat raises, Steam answers two quotes: both are returned and saved
C7_Witness ==
    /\ q_pc = "found"
    /\ CycleDone
    /\ market.search[1].raises
    /\ Len(all_prices) = 2
    /\ Len(prices) = 2
    /\ ~found.raised

----------------------------------------------------------------------------
(* Properties of the ledger, under SpecLedger *)

Triple(o) == <<o.skin_id, o.buy_marketplace, o.sell_marketplace>>

\* the active rows of a triple
ActiveWith(opps, tr) == {i \in Pos(opps) : opps[i].is_active /\ Triple(opps[i]) = tr}

\* the values a detection writes into a row
Values(o) == <<o.buy_price, o.sell_price, o.profit_amount, o.profit_percentage,
               o.fees, o.net_profit>>

\* this step ends a cycle whose detection ran to its end
DetectionCompletes ==
    /\ Len(task'[1].log) = Len(task[1].log) + 1
    /\ task'[1].log[Len(task'[1].log)] = "completed"

\* what a step may do to the table arbitrage_opportunities
C6_Step ==
    LET old == arbitrage_opportunities
        new == arbitrage_opportunities'
    IN /\ Len(new) >= Len(old)
       /\ \A i \in Pos(old) :
             /\ Triple(new[i]) = Triple(old[i])
             /\ new[i].is_active = old[i].is_active
             /\ new[i] # old[i] => new[i].detected_at = now
       /\ \A i \in (Len(old) + 1)..Len(new) :
             /\ new[i].is_active
             /\ new[i].detected_at = now
             /\ ActiveWith(old, Triple(new[i])) = {}
       /\ DetectionCompletes =>
             \A k \in skins_with_prices(prices, Len(skins), now) :
                 LET r == analyze_skin_arbitrage(prices, k, now)
                 IN r.kind = "upsert" =>
                       \E i \in Pos(new) :
                           /\ ActiveWith(new, Triple(r.candidate)) = {i}
                           /\ Values(new[i]) = Values(r.candidate)
                           /\ new[i].detected_at = now

\* C6: the ledger never holds two active rows of one (skin, buy_marketplace,
\* sell_marketplace) triple; detecting a triple that has an active row
\* overwrites the prices, profit_amount, profit_percentage, fees, net_profit
\* and detected_at of that row, and a triple without an active row is
\* inserted as one new active row
C6_OneActiveRowPerTriple ==
    /\ [](\A i \in Pos(arbitrage_opportunities) :
              arbitrage_opportunities[i].is_active =>
                  ActiveWith(arbitrage_opportunities,
                             Triple(arbitrage_opportunities[i])) = {i})
    /\ [][C6_Step]_vars

\* the row inserted in the first cycle at sell price 200.00 is the one row of
\* its triple after the second cycle, now at 250.00
C6_Witness ==
    /\ task[1].log = <<"completed", "completed">>
    /\ \E i \in Pos(prices) : /\ prices[i].timestamp = 0
                              /\ prices[i].marketplace = SteamName
                              /\ prices[i].price = 200000
    /\ \A i \in Pos(prices) : prices[i].timestamp = 0 =>
                                 prices[i].price \in {100000, 200000}
    /\ \E i \in Pos(prices) : prices[i].timestamp = 0 /\ prices[i].price = 100000
    /\ Len(arbitrage_opportunities) = 1
    /\ arbitrage_opportunities[1].buy_price = 100000
    /\ arbitrage_opportunities[1].sell_price = 250000
    /\ arbitrage_opportunities[1].detected_at > UpdateInterval

----------------------------------------------------------------------------
(* Properties of the scheduler, under Spec and SpecFair *)

LoopSleeps == {"interval_sleep", "backoff_sleep"}

\* task t ends a cycle with an exception in this step
CycleFails(t) ==
    /\ Len(task'[t].log) = Len(task[t].log) + 1
    /\ task'[t].log[Len(task'[t].log)] = "error"

C8_Step ==
    \A t \in TaskIds :
        /\ CycleFails(t) =>
              /\ task'[t].pc = "backoff_sleep"
              /\ task'[t].wake = now + BackoffDelay
              /\ BackoffDelay # UpdateInterval
              /\ is_running' = is_running
        /\ (task[t].pc = "backoff_sleep" /\ task'[t].pc # "backoff_sleep") =>
              /\ now >= task[t].wake
              /\ is_running => task'[t].pc = "popular"
        /\ (Alive(t) /\ task'[t].pc = "returned") =>
              /\ ~is_running
              /\ task[t].pc \in LoopSleeps

\* C8: an exception escaping a cycle never ends the loop: the cycle is
\* followed by the 60-second backoff, not the update interval, is_running is
\* left as it is, and when the backoff is over and is_running is true the
\* loop begins another cycle; a loop returns only from a sleep, on reading
\* is_running false
C8_BackoffAndRetry == [][C8_Step]_vars

\* two failing cycles in a row, and the loop is in its backoff, running
C8_Witness ==
    \E t \in TaskIds :
        /\ task[t].log = <<"error", "error">>
        /\ task[t].pc = "backoff_sleep"
        /\ is_running

\* C9: whatever the order of the start_monitoring and stop_monitoring
\* calls, at most one loop is alive and at most one cycle runs at a time
C9_SingleLoop ==
    /\ Cardinality({t \in TaskIds : Alive(t)}) <= 1
    /\ Cardinality({t \in TaskIds : InCycle(t)}) <= 1

\* start, stop and start again while the first loop is inside its cycle:
\* two loops run a cycle each
C9_Witness ==
    /\ is_running
    /\ InCycle(1)
    /\ InCycle(2)

C10_Step ==
    /\ (is_running /\ ~is_running') => UNCHANGED <<task, now, ledger>>
    /\ \A t \in TaskIds :
          /\ (~is_running /\ task[t].pc \in LoopSleeps /\ task'[t].pc # task[t].pc)
                => /\ task'[t].pc = "returned"
                   /\ UNCHANGED ledger
          /\ (~InCycle(t) /\ task'[t].pc \in {"popular", "search", "rate_sleep"})
                => is_running'
          /\ (InCycle(t) /\ task'[t] # task[t])
                => task'[t].pc \in {"popular", "search", "rate_sleep"} \cup LoopSleeps

\* C10: stop_monitoring changes nothing but the flag; a loop inside a cycle
\* goes on to the end of the cycle and into the sleep that follows it; a
\* loop that leaves that sleep while is_running is false returns without
\* beginning a cycle; and unless start_monitoring is called again, every
\* loop has returned in the end
C10_StopDrains ==
    /\ [][C10_Step]_vars
    /\ ~is_running ~> (is_running \/ \A t \in TaskIds : ~Alive(t))

\* a loop that ran a whole cycle has returned after a stop
C10_Witness ==
    /\ ~is_running
    /\ \A t \in TaskIds : ~Alive(t)
    /\ \E t \in TaskIds : task[t].pc = "returned" /\ Len(task[t].log) > 0

----------------------------------------------------------------------------
(* Properties of one cycle over several items, under SpecCycle *)

\* the task is inside _update_skin_prices of an item or in the sleep after it
ItemInFlight(t) == task[t].pc \in {"search", "rate_sleep"} /\ task[t].item >= 1

\* the step starts _update_skin_prices for a further item of the cycle
StartsFurtherItem(t) ==
    /\ task'[t].pc \in {"search", "rate_sleep"}
    /\ task'[t].item > task[t].item

\* C11: once stop_monitoring has been called during a cycle (is_running is
\* false while an item of the cycle is in flight), no step starts the update
\* of a further item of that cycle.
C11_NoFurtherItemAfterStop ==
    [][\A t \in TaskIds :
          (~is_running /\ ItemInFlight(t)) => ~StartsFurtherItem(t)]_vars

\* the second item of a cycle is being updated although the monitor is
\* stopped
C11_Witness ==
    /\ ~is_running
    /\ task[1].pc = "search"
    /\ task[1].item = Len(CycleSkins)

\* C12: a ledger write failure does not abort the remainder of the cycle
\* and does not trigger the 60-second backoff: as the queries of the ledger
\* do not fail here and the exceptions of the marketplaces are caught, no
\* cycle ends in the backoff sleep of line 59.
C12_WriteFailureContained ==
    \A t \in TaskIds : task[t].pc # "backoff_sleep"

\* a cycle has ended in the backoff sleep with the opportunity of at most
\* one of the two skins written
C12_Witness ==
    /\ task[1].pc = "backoff_sleep"
    /\ Len(skins) = Len(CycleSkins)
    /\ Len(arbitrage_opportunities) < Len(CycleSkins)

----------------------------------------------------------------------------
(* Properties of overlapping detection passes, under Spec *)

\* task t ends a cycle whose detection ran to its end in this step
PassCompletes(t) ==
    /\ Len(task'[t].log) = Len(task[t].log) + 1
    /\ task'[t].log[Len(task'[t].log)] = "completed"

\* the lookup of line 238 and the commit of line 269 are in one step of the
\* pass: after it every pair the pass detected is in exactly one active row,
\* which holds the values of this pass, and no other row was touched
C13_Step ==
    LET old == arbitrage_opportunities
        new == arbitrage_opportunities'
    IN \A t \in TaskIds :
          PassCompletes(t) =>
             /\ \A k \in skins_with_prices(prices, Len(skins), now) :
                   LET r == analyze_skin_arbitrage(prices, k, now)
                   IN r.kind = "upsert" =>
                         \E i \in Pos(new) :
                             /\ ActiveWith(new, Triple(r.candidate)) = {i}
                             /\ Values(new[i]) = Values(r.candidate)
                             /\ new[i].detected_at = now
                             /\ i \in Pos(old) <=> ActiveWith(old, Triple(r.candidate)) # {}
             /\ \A i \in Pos(old) : new[i] # old[i] => new[i].detected_at = now

\* C13: the upserts of overlapping detection passes (two loops alive on
\* the one event loop) are serialized: no interleaving leaves two active
\* rows of one (skin, buy_marketplace, sell_marketplace) triple, and the
\* row of a triple holds the values of the pass that committed last.
C13_SerializedUpserts ==
    /\ [](\A i, j \in Pos(arbitrage_opportunities) :
              (/\ arbitrage_opportunities[i].is_active
               /\ arbitrage_opportunities[j].is_active
               /\ Triple(arbitrage_opportunities[i]) = Triple(arbitrage_opportunities[j]))
                  => i = j)
    /\ [][C13_Step]_vars

\* two loops ran their first cycles in the same second, both passes
\* detected the pair of the one skin, and the table holds one row
C13_Witness ==
    /\ task[1].log = <<"completed">>
    /\ task[2].log = <<"completed">>
    /\ now = RateLimitDelay
    /\ Len(arbitrage_opportunities) = 1
    /\ arbitrage_opportunities[1].is_active
    /\ arbitrage_opportunities[1].detected_at = now

----------------------------------------------------------------------------
(* Properties of the opportunity record, under SpecDetect *)

\* the fee a marketplace charges on a price: 2.5% on CSFloat, 15% on Steam
FeeOf(m, p) ==
    IF m = CSFloatName THEN (p * CSFloatFeePerMille) \div 1000
    ELSE IF m = SteamName THEN (p * SteamFeePerMille) \div 1000
    ELSE 0

\* the best pair of the identity group of quote q passes every gate
PassesAllGates(quotes, q) ==
    LET ms == MarketsOf(quotes, q)
        b == Least({CheapestOn(quotes, q, m) : m \in ms})
        s == Greatest({CheapestOn(quotes, q, m) : m \in ms})
        bm == CHOOSE m \in ms : CheapestOn(quotes, q, m) = b
        sm == CHOOSE m \in ms : CheapestOn(quotes, q, m) = s
    IN /\ Cardinality(ms) >= 2
       /\ s > b
       /\ s - b >= max_price_difference
       /\ b > 0
       /\ (s - b) * 100 >= min_profit_threshold * b
       /\ (s - b) - (FeeOf(bm, b) + FeeOf(sm, s)) > 0

\* C14: for an identity group whose best pair passes all gates exactly one
\* opportunity is returned, and in every returned opportunity
\* profit_amount = sell_price - buy_price,
\* profit_percentage = profit_amount / buy_price * 100,
\* fees = fee(buy marketplace, buy_price) + fee(sell marketplace,
\* sell_price) and net_profit = profit_amount - fees.
C14_OpportunityArithmetic ==
    (Found /\ task[1].pc = "unborn") =>
      /\ \A k \in Pos(all_prices) :
            PassesAllGates(all_prices, all_prices[k]) =>
               Cardinality({i \in Pos(found.opportunities) :
                              SameItem(found.opportunities[i], all_prices[k])}) = 1
      /\ \A i \in Pos(found.opportunities) :
            LET o == found.opportunities[i]
            IN /\ o.profit_amount = o.sell_price - o.buy_price
               /\ o.buy_price > 0
               /\ o.profit_percentage = <<o.profit_amount * 100, o.buy_price>>
               /\ o.fees = FeeOf(o.buy_marketplace, o.buy_price)
                             + FeeOf(o.sell_marketplace, o.sell_price)
               /\ o.net_profit = o.profit_amount - o.fees

\* bought on Steam at 100.00 and sold on CSFloat at 120.00: profit 20.00,
\* 20 percent, fees 15.00 + 3.00, net 2.00
C14_Witness ==
    /\ Found
    /\ \E i \in Pos(found.opportunities) :
          LET o == found.opportunities[i]
          IN /\ PassesAllGates(all_prices, o)
             /\ o.buy_marketplace = SteamName
             /\ o.buy_price * 6 = o.sell_price * 5
             /\ o.profit_amount * 5 = o.buy_price
             /\ o.fees * 10 = o.profit_amount * 9
             /\ o.net_profit * 10 = o.profit_amount

----------------------------------------------------------------------------
(* Properties of the fee lookup, under SpecFees *)

\* the i-th registered marketplace is named in the label, letter case apart
NamedIn(i, label) == IsSubstring(Lower(Marketplaces[i]), Lower(label))

\* C15: _get_marketplace_fees(label, price) is the fee of the first
\* registered marketplace whose lower-cased name is a substring of the
\* lower-cased label (CSFloat 2.5% of the price, Steam 15%), and 0 when no
\* registered name is in the label; both monitors compute the same value.
C15_FeeByFirstContainedName ==
    fee_call.called =>
      /\ (\A i \in Pos(Marketplaces) : ~NamedIn(i, fee_call.marketplace))
            => fee_call.simple = 0
      /\ \A i \in Pos(Marketplaces) :
            (/\ NamedIn(i, fee_call.marketplace)
             /\ \A j \in 1..(i - 1) : ~NamedIn(j, fee_call.marketplace))
               => fee_call.simple = FeeOf(Marketplaces[i], fee_call.price)
      /\ fee_call.monitor = fee_call.simple

\* a label that holds both names, Steam first: the fee is the one of
\* CSFloat, the first marketplace of the registry
C15_Witness ==
    /\ fee_call.called
    /\ NamedIn(1, fee_call.marketplace)
    /\ NamedIn(2, fee_call.marketplace)
    /\ SubSeq(fee_call.marketplace, 1, Len(SteamName)) = SteamName
    /\ fee_call.price = 16000
    /\ fee_call.simple = 400
    /\ fee_call.monitor = 400

----------------------------------------------------------------------------
(* Properties of the on-demand calls, under SpecQuery *)

Permuted(quotes, p) == [i \in Pos(quotes) |-> quotes[p[i]]]

\* what an opportunity decides: the item variant, the two marketplaces, the
\* two prices, the fees and the net profit; the listing URLs are left out
Decision(o) ==
    <<ReplaceSpace(Lower(o.condition)), o.stattrak, o.souvenir,
      o.buy_marketplace, o.sell_marketplace, o.buy_price, o.sell_price,
      o.fees, o.net_profit>>

Decisions(r) == {Decision(r.opportunities[i]) : i \in Pos(r.opportunities)}

\* C17: for a fixed multiset of quotes the order of the input changes at
\* most the listing URLs: whether an opportunity is returned, and its
\* marketplaces, prices, fees and net_profit, are the same for every order
\* of the quotes, price ties within and across marketplaces included.
C17_OrderChangesOnlyUrl ==
    q_pc = "found" =>
       \E given \in {Decisions(found)} :
          \A p \in Permutations(Pos(all_prices)) :
             \E r \in {find_arbitrage_opportunities(Permuted(all_prices, p),
                                                    request.weapon, request.skin_name)} :
                 /\ r.raised = found.raised
                 /\ Len(r.opportunities) = Len(found.opportunities)
                 /\ Decisions(r) = given

\* CSFloat has two listings at the lowest price: the same opportunity is
\* returned in another order of the quotes with the other listing's URL
C17_Witness ==
    /\ Found
    /\ Len(found.opportunities) = 1
    /\ \E p \in Permutations(Pos(all_prices)) :
          \E r \in {find_arbitrage_opportunities(Permuted(all_prices, p),
                                                 request.weapon, request.skin_name)} :
              /\ Len(r.opportunities) = 1
              /\ r.opportunities[1].buy_url # found.opportunities[1].buy_url

\* a text without its leading and trailing spaces, every run of spaces cut
\* to one space, in lower case
RECURSIVE NormalizedFrom(_, _)
NormalizedFrom(s, i) ==
    IF i > Len(s) THEN <<>>
    ELSE (IF \/ s[i] # " "
             \/ /\ i > 1
                /\ s[i - 1] # " "
                /\ \E j \in (i + 1)..Len(s) : s[j] # " "
          THEN <<LowerChar(s[i])>> ELSE <<>>) \o NormalizedFrom(s, i + 1)

Normalized(s) == NormalizedFrom(s, 1)

\* two quotes whose condition texts differ only in letter case or whitespace
SameConditionText(a, b) ==
    /\ Normalized(a.condition) = Normalized(b.condition)
    /\ a.stattrak = b.stattrak
    /\ a.souvenir = b.souvenir

\* C18: two quotes of one call whose condition texts differ only in letter
\* case or only in whitespace, with equal StatTrak and Souvenir flags, get
\* the same key from _create_item_key and are in the same group.
C18_ConditionTextNormalised ==
    q_pc = "found" =>
       \A i, j \in Pos(all_prices) :
          SameConditionText(all_prices[i], all_prices[j]) =>
             /\ create_item_key(all_prices[i], request.weapon, request.skin_name)
                   = create_item_key(all_prices[j], request.weapon, request.skin_name)
             /\ \E g \in {item_groups(all_prices, request.weapon, request.skin_name)} :
                   \E k \in Pos(g) : \E m, n \in Pos(g[k].items) :
                       g[k].items[m] = all_prices[i] /\ g[k].items[n] = all_prices[j]

\* "Factory New " on CSFloat at 100.00 and "Factory New" on Steam at 200.00
\* are grouped apart, and no opportunity is returned for the pair
C18_Witness ==
    /\ Found
    /\ Len(all_prices) = Len(Marketplaces)
    /\ all_prices[1].condition = FactoryNewPadded
    /\ all_prices[1].price = Least(QueryPrices)
    /\ all_prices[2].condition = FactoryNew
    /\ all_prices[2].price = Greatest(QueryPrices)
    /\ all_prices[2].marketplace = SteamName
    /\ Len(item_groups(all_prices, request.weapon, request.skin_name)) = Len(all_prices)
    /\ found.opportunities = <<>>

\* C19: when the queried weapon or the queried skin name is missing, the
\* quotes are not grouped and find_arbitrage_opportunities returns no
\* opportunity.
C19_MissingNameExcluded ==
    (q_pc = "found" /\ (request.weapon = NoText \/ request.skin_name = NoText)) =>
        found.opportunities = <<>>

\* an opportunity returned for a request without weapon: the weapon part of
\* the key of its group is empty
C19_Witness ==
    /\ Found
    /\ request.weapon = NoText
    /\ Len(found.opportunities) > 0
    /\ found.opportunities[1].weapon = NoText
    /\ \E g \in {item_groups(all_prices, request.weapon, request.skin_name)} :
          g[1].key[1] = "|"

\* the members of a group as a bag
BagOfSeq(s) ==
    [x \in {s[i] : i \in Pos(s)} |-> Cardinality({i \in Pos(s) : s[i] = x})]

\* the partition a grouping makes: its keys, each with its member quotes
Partition(groups) == {<<groups[i].key, BagOfSeq(groups[i].items)>> : i \in Pos(groups)}

\* C20: grouping a list of quotes by _create_item_key and grouping any
\* permutation of the list give the same partition: the same keys, each
\* with the same member quotes.
C20_GroupingPermutationInvariant ==
    q_pc = "searched" =>
       \E given \in {Partition(item_groups(all_prices, request.weapon,
                                           request.skin_name))} :
          \A p \in Permutations(Pos(all_prices)) :
             Partition(item_groups(Permuted(all_prices, p), request.weapon,
                                   request.skin_name)) = given

\* the first and the last quote have one key and the quote between them
\* has another
C20_Witness ==
    /\ q_pc = "searched"
    /\ Len(all_prices) = MaxQuotes
    /\ \E g \in {item_groups(all_prices, request.weapon, request.skin_name)} :
          /\ Len(g) = 2
          /\ g[1].items = <<all_prices[1], all_prices[Len(all_prices)]>>

----------------------------------------------------------------------------
(* Properties of the service, under SpecServe *)

\* a step of the scheduler: a stretch of the task, or time passing
SchedulerStep == <<is_running, task, now>>' # <<is_running, task, now>>

\* C21: an on-demand query (GET /skins/{skin_name}, GET /opportunities of
\* the stateless monitor, a query of the ledger) creates, updates and
\* deletes no Skin, Price or ArbitrageOpportunity row, whatever the
\* scheduler has done before it and does after it: a step that answers an
\* endpoint leaves the three tables as they are, and so does every step
\* that is not a step of the scheduler
C21_Step ==
    /\ response' # response => UNCHANGED ledger
    /\ ~ SchedulerStep => UNCHANGED ledger

C21_QueriesLeaveLedger == [][C21_Step]_vars

\* the stateless detector has answered with an opportunity while a cycle of
\* the scheduler is updating an item and the ledger has rows of all kinds
C21_Witness ==
    /\ task[1].pc = "search"
    /\ skins # <<>> /\ prices # <<>> /\ arbitrage_opportunities # <<>>
    /\ response.endpoint = "simple_opportunities"
    /\ response.status = 200
    /\ response.body # <<>>

----------------------------------------------------------------------------
(* Properties of the ledger over the cycles, under SpecLedger *)

\* the triples that have an active row
ActiveTriples(opps) == {Triple(opps[i]) : i \in {j \in 1..Len(opps) : opps[j].is_active}}

\* C22: no step deletes an ArbitrageOpportunity row or sets its is_active
\* to false: every row stays in the table, an active row stays active with
\* its triple, also through a cycle that does not detect its spread again,
\* and the set of active triples only grows
C22_Step ==
    /\ Len(arbitrage_opportunities') >= Len(arbitrage_opportunities)
    /\ \A i \in 1..Len(arbitrage_opportunities) :
          arbitrage_opportunities[i].is_active =>
              /\ arbitrage_opportunities'[i].is_active
              /\ Triple(arbitrage_opportunities'[i]) = Triple(arbitrage_opportunities[i])
    /\ ActiveTriples(arbitrage_opportunities) \subseteq ActiveTriples(arbitrage_opportunities')

C22_ActiveStaysActive == [][C22_Step]_vars

\* two cycles have completed and an active row was last detected by the
\* first of them: the second one did not find its spread
C22_Witness ==
    /\ task[1].log = <<"completed", "completed">>
    /\ \E i \in 1..Len(arbitrage_opportunities) :
          /\ arbitrage_opportunities[i].is_active
          /\ arbitrage_opportunities[i].detected_at + UpdateInterval <= now

\* C23: every active ArbitrageOpportunity row, as created and as refreshed,
\* has profit_amount = sell_price - buy_price and net_profit =
\* profit_amount - fees, a positive net_profit, a profit_percentage of at
\* least min_profit_threshold and a spread of at least max_price_difference
C23_ActiveRowsPassGates ==
    \A i \in 1..Len(arbitrage_opportunities) :
        LET o == arbitrage_opportunities[i]
        IN o.is_active =>
              /\ o.profit_amount = o.sell_price - o.buy_price
              /\ o.net_profit = o.profit_amount - o.fees
              /\ o.net_profit > 0
              /\ o.profit_percentage[2] > 0
              /\ o.profit_percentage[1] >= min_profit_threshold * o.profit_percentage[2]
              /\ o.sell_price - o.buy_price >= max_price_difference

\* a row that the first cycle created from CSFloat 100.00 and Steam 200.00
\* has been refreshed by the second cycle, which found Steam at 250.00
C23_Witness ==
    /\ Len(task[1].log) = 2
    /\ Len(arbitrage_opportunities) = 1
    /\ arbitrage_opportunities[1].is_active
    /\ arbitrage_opportunities[1].sell_price = 250000
    /\ arbitrage_opportunities[1].detected_at >= UpdateInterval
    /\ \E i, j \in 1..Len(prices) :
          /\ prices[i].timestamp < UpdateInterval /\ prices[i].price = 100000
          /\ prices[j].timestamp < UpdateInterval /\ prices[j].price = 200000
          /\ \A k \in 1..Len(prices) : prices[k].timestamp < UpdateInterval => k \in {i, j}

----------------------------------------------------------------------------
(* Properties of the queries of the ledger, under SpecServe *)

\* the rows of the table a query with these bounds is to choose from; a
\* query without bounds (get_current_opportunities) takes every active row
Eligible(bounded, min_profit, max_profit) ==
    {i \in 1..Len(arbitrage_opportunities) :
        LET o == arbitrage_opportunities[i]
        IN /\ o.is_active
           /\ bounded => /\ o.profit_percentage[1] >= min_profit * o.profit_percentage[2]
                         /\ o.profit_percentage[1] <= max_profit * o.profit_percentage[2]}

\* body lists, without repetition, limit or all of the eligible rows as they
\* are in the table, by falling net_profit, and no row left out has a
\* greater net_profit than a listed one
RankedAnswer(body, rows, limit) ==
    /\ Len(body) <= limit
    /\ Len(body) = limit \/ Len(body) = Cardinality(rows)
    /\ \A k \in 1..Len(body) :
          /\ body[k].id \in rows
          /\ body[k].is_active
          /\ \A f \in DOMAIN arbitrage_opportunities[body[k].id] :
                body[k][f] = arbitrage_opportunities[body[k].id][f]
          /\ \A l \in 1..Len(body) :
                k < l => /\ body[k].id # body[l].id
                         /\ body[k].net_profit >= body[l].net_profit
          /\ \A i \in rows :
                (\A l \in 1..Len(body) : body[l].id # i) =>
                    body[k].net_profit >= arbitrage_opportunities[i].net_profit

\* C24: the opportunities query (GET /opportunities of routes.py, and
\* get_current_opportunities with no bounds and limit 50) answers with
\* active rows only, whose profit_percentage lies between min_profit and
\* max_profit, both included, ordered by net_profit descending; it answers
\* with at most limit rows, those of the highest net_profit among the
\* matching rows
C24_Step ==
    /\ (response' # response /\ response'.endpoint = "opportunities"
            /\ response'.status = 200)
          => RankedAnswer(response'.body,
                          Eligible(TRUE, response'.min_profit, response'.max_profit),
                          response'.limit)
    /\ (response' # response /\ response'.endpoint = "current")
          => RankedAnswer(response'.body, Eligible(FALSE, 0, 0), CurrentLimit)

C24_QueryRanksMatchingRows == [][C24_Step]_vars

\* the query with limit 1 has answered with the row of net profit 110.00
\* while the table has a second matching row of net profit 67.50
C24_Witness ==
    /\ response.endpoint = "opportunities"
    /\ response.status = 200
    /\ response.limit = 1
    /\ Len(response.body) = 1
    /\ response.body[1].net_profit = 110000
    /\ \E i \in Eligible(TRUE, response.min_profit, response.max_profit) :
          /\ i < response.body[1].id
          /\ arbitrage_opportunities[i].net_profit = 67500

----------------------------------------------------------------------------
(* Properties of the seed list, under SpecSeed *)

\* what a marketplace contributes: nothing when its get_popular_skins raises
Contribution(answer) == IF answer.raises THEN <<>> ELSE answer.skins

\* the positions of a list that hold the first entry of a name
FirstOfName(all) ==
    {i \in 1..Len(all) : /\ all[i].name # NoText
                         /\ \A j \in 1..(i - 1) : all[j].name # all[i].name}

\* list is made of the entries of all at the first positions of K, in
\* order, at most cap of them
LeadingEntries(list, all, K, cap) ==
    /\ Len(list) = (IF Cardinality(K) < cap THEN Cardinality(K) ELSE cap)
    /\ \A n \in 1..Len(list) :
          \E i \in K : /\ Cardinality({j \in K : j < i}) = n - 1
                       /\ list[n] = all[i]

\* C25: the seed list of a cycle is the concatenation of the popular lists
\* of the sources in registry order, without the entries that have no name
\* and without every later entry of a name already seen, cut to at most 100
\* entries; a source that raises contributes nothing and the other source
\* still contributes
C25_SeedList ==
    \E all \in {Contribution(market.popular[1]) \o Contribution(market.popular[2])} :
        /\ task[1].pc = "search" =>
              LeadingEntries(task[1].popular_skins, all, FirstOfName(all), PopularCap)
        /\ task[1].pc \in {"interval_sleep", "backoff_sleep"} => FirstOfName(all) = {}

\* more than 100 names came in, two of them from lists that overlap, and
\* the seed list has 100 entries
C25_Witness ==
    /\ task[1].pc = "search"
    /\ Len(task[1].popular_skins) = PopularCap
    /\ Len(market.popular[1].skins) + Len(market.popular[2].skins) > PopularCap
    /\ \E i \in 1..Len(market.popular[2].skins) :
          market.popular[2].skins[i] = market.popular[1].skins[1]

\* the first source raised and the seed list is the list of the second one
C25_WitnessRaise ==
    /\ task[1].pc = "search"
    /\ market.popular[1].raises
    /\ task[1].popular_skins = <<Redline>>

----------------------------------------------------------------------------
(* Properties of the endpoints, under SpecServe *)

\* the marketplaces have no quote for the on-demand caller
NoQuotes == search_skin_manual(market.search) = <<>>

\* C26: as long as the engine instance has not been set at startup every
\* on-demand query endpoint (GET /skins/{skin_name} and GET /opportunities
\* of both routers) answers 503; once it is set, the endpoints of the
\* detector answer 200, with an empty result when there are no quotes
C26_Step ==
    response' # response =>
        /\ (~ price_monitor
              /\ response'.endpoint \in {"skins", "simple_opportunities", "opportunities"})
              => response'.status = 503
        /\ (price_monitor /\ response'.endpoint \in {"skins", "simple_opportunities"})
              => /\ response'.status = 200
                 /\ NoQuotes => response'.body = <<>>

C26_UnavailableUntilStartup == [][C26_Step]_vars

\* GET /opportunities of routes.py has answered 200 before the startup
\* event has set the engine instance
C26_Witness ==
    /\ ~ price_monitor
    /\ response.endpoint = "opportunities"
    /\ response.status = 200

----------------------------------------------------------------------------
(* Properties of the steps of a cycle, under SpecCycle *)

\* the item the for loop of the task record is at: none before the first
ItemAt(tk) == IF tk.pc = "popular" THEN 0 ELSE tk.item

\* C27: within a cycle the steps run in order and one at a time.  While
\* the update of an item waits for a marketplace nothing else of the cycle
\* begins; the update of an item begins only when the updates of all items
\* before it have ended, each by its rate limit sleep or by a failure caught
\* at line 77; the detection runs only when the update of every item of
\* the list has ended in one of these ways; rows of opportunities are
\* written by the detection only, and the sleep of the update interval
\* begins only in the step in which the detection has completed
C27_Step ==
    LET tk == task[1]
        tk2 == task'[1]
        begins == tk2.pc = "search" /\ (tk.pc # "search" \/ tk2.item # tk.item)
        detects == Len(tk2.log) > Len(tk.log)
        caught == tk2.errors - (IF tk.pc = "popular" THEN 0 ELSE tk.errors)
    IN /\ (tk.pc = "search" /\ tk2 # tk) =>
              /\ tk2.pc \in {"search", "rate_sleep"}
              /\ tk2.item = tk.item
              /\ ~ detects
       /\ begins => /\ tk.pc \in {"popular", "rate_sleep"}
                    /\ tk2.item = ItemAt(tk) + caught + 1
       /\ detects => /\ tk.pc \in {"popular", "rate_sleep"}
                     /\ tk.pc = "rate_sleep" => Len(tk.popular_skins) = tk.item + caught
                     /\ tk2.pc \in {"interval_sleep", "backoff_sleep"}
       /\ arbitrage_opportunities' # arbitrage_opportunities => detects
       /\ (tk2.pc = "interval_sleep" /\ tk.pc # "interval_sleep") =>
              tk2.log = Append(tk.log, "completed")

C27_StepsInOrder == [][C27_Step]_vars

\* a cycle over two items has completed: the update of one item ended in
\* the except clause, the other one was updated, and the detection has
\* written a row
C27_Witness ==
    /\ task[1].pc = "interval_sleep"
    /\ task[1].log = <<"completed">>
    /\ task[1].errors = 1
    /\ Len(skins) = 1
    /\ arbitrage_opportunities # <<>>

----------------------------------------------------------------------------
(* Properties of the detection step, under Spec *)

\* the persisted quotes of skin k that are available and were stamped in
\* the ten minutes before time, whichever cycle saved them
WindowQuotes(k, time) ==
    SelectSeq(prices, LAMBDA r : /\ r.skin_id = k
                                 /\ r.available
                                 /\ time - r.timestamp <= RecentWindow)

\* the step ends a cycle of task t: its detection step has run
DetectionStepOf(t) == Len(task'[t].log) > Len(task[t].log)

\* C28: the detection step of a cycle analyses, for every skin, exactly the
\* available persisted quotes of the last ten minutes: when these quotes
\* hold a spread that passes the gates, the step leaves one active row of
\* its triple with the values of that spread, detected now, and the rows of
\* every other skin, also of a skin without a quote in the window, are left
\* as they are
C28_Step ==
    \A t \in TaskIds :
        DetectionStepOf(t) =>
            \A k \in 1..Len(skins) :
                LET r == analyze_recent(k, WindowQuotes(k, now))
                IN IF r.kind = "upsert"
                   THEN \E i \in Pos(arbitrage_opportunities') :
                           /\ ActiveWith(arbitrage_opportunities', Triple(r.candidate)) = {i}
                           /\ Values(arbitrage_opportunities'[i]) = Values(r.candidate)
                           /\ arbitrage_opportunities'[i].detected_at = now
                   ELSE \A i \in Pos(arbitrage_opportunities') :
                           arbitrage_opportunities'[i].skin_id = k =>
                               /\ i \in Pos(arbitrage_opportunities)
                               /\ arbitrage_opportunities'[i] = arbitrage_opportunities[i]

C28_DetectionReadsWindow == [][C28_Step]_vars

\* a cycle has ended with an error although both marketplaces' quotes of
\* the skin were saved in the window: no row was written
C28_Witness ==
    \E t \in TaskIds :
        /\ task[t].pc = "backoff_sleep"
        /\ task[t].log = <<"error">>
        /\ now + BackoffDelay = task[t].wake
        /\ Len(WindowQuotes(1, now)) = 2
        /\ analyze_recent(1, WindowQuotes(1, now)).kind = "upsert"
        /\ arbitrage_opportunities = <<>>

----------------------------------------------------------------------------
(* Properties of the rate limit sleep, under SpecCycle *)

\* the step starts the update of an item that is not the first of its list
NextItemStarts(t) ==
    /\ task'[t].item > 1
    /\ task'[t].item # task[t].item

\* C29: in a cycle the update of a next item starts only out of the rate
\* limit sleep that followed the update of the item right before it, and
\* never before that sleep is over: between two item updates the task
\* always sleeps the delay, also when the first of them failed
C29_Step ==
    \A t \in TaskIds :
        NextItemStarts(t) =>
            /\ task[t].pc = "rate_sleep"
            /\ now >= task[t].wake
            /\ task'[t].item = task[t].item + 1

C29_SleepAfterEveryItem == [][C29_Step]_vars

\* the update of the first item failed and the second item is being
\* updated at the time the cycle began
C29_Witness ==
    \E t \in TaskIds :
        /\ task[t].pc = "search"
        /\ task[t].item = 2
        /\ task[t].errors = 1
        /\ task[t].log = <<>>
        /\ now = 0

----------------------------------------------------------------------------
(* Properties of the clients' prices, under SpecDetect *)

\* C30: every quote the Steam and CSFloat clients hand to a detector has a
\* price above zero: the quotes of an on-demand call and the price rows of
\* the scheduler are all priced above zero, no on-demand detection raises
\* and no cycle of the scheduler ends with an error
C30_QuotesPricedAboveZero ==
    /\ \A i \in Pos(all_prices) : all_prices[i].price > 0
    /\ \A i \in Pos(prices) : prices[i].price > 0
    /\ ~ found.raised
    /\ \A t \in TaskIds : \A i \in Pos(task[t].log) : task[t].log[i] # "error"

\* Steam quotes the item nobody sells at 0.00 and CSFloat quotes it at
\* 100.00: the on-demand detection raised and the cycle of the scheduler
\* ended with an error
C30_Witness ==
    /\ [i \in Pos(all_prices) |-> <<all_prices[i].marketplace, all_prices[i].price>>]
          = <<<<CSFloatName, 100000>>, <<SteamName, 0>>>>
    /\ found.raised
    /\ [i \in Pos(prices) |-> <<prices[i].marketplace, prices[i].price>>]
          = <<<<CSFloatName, 100000>>, <<SteamName, 0>>>>
    /\ task[1].log = <<"error">>

====
